---- MODULE Spec2Model ----
(***************************************************************************)
(* Liquid-staking pool (pinocchio program): the six instructions           *)
(* Initialize, CrankInitializeReserve, CrankMergeReserve, Deposit,         *)
(* CrankSplit and Withdraw over the ledger's accounts.                     *)
(*                                                                         *)
(* Amounts are counted in a coarse unit: one SOL is LamportScale units and *)
(* the rent-exempt minimum of a record is RentExempt units, so that the    *)
(* integer divisions of the exchange rate round within TLC's integers.     *)
(* An instruction that returns an error leaves every account as it was     *)
(* (the ledger commits an instruction's effects as a unit); the variable   *)
(* last records the last instruction that took effect.                     *)
(***************************************************************************)
EXTENDS Integers, Sequences, FiniteSets, TLC

\* ------------------------------------------------------------------ bounds
LamportScale == 4
RentExempt == 1
\* How many steps of the ledger (instructions that take effect, epoch
\* changes, reward credits) a behaviour is followed for.
MaxSteps == 7
\* A u64 of the program is a word of WordBits bits here, so that products of
\* two words stay within TLC's integers.
WordBits == 14
\* How many steps the pool is used for before the open exits are only
\* followed up (the specification with fairness).
LiveSteps == 4

\* ------------------------------------------------------- program constants
LAMPORTS_PER_SOL == LamportScale
STAKE_ACCOUNT_SPACE == 200
ConfigLEN == 32 + 32 + 32 + 32 + 32
MintLEN == 82
TokenAccountLEN == 165
\* Rent::get()?.minimum_balance(space): zero-length records hold no rent.
minimum_balance(space) == IF space = 0 THEN 0 ELSE RentExempt
\* The amount Initialize mints to the initializer: 1 * 10^9 base units.
BootstrapMint == LAMPORTS_PER_SOL
\* The external staking system's minimum delegation (one base unit).
MinimumDelegation == 1
\* u64::MAX, and the cast `x as u64` of a wider integer, which keeps the low
\* bits and drops the rest.
U64_MAX == 2 ^ WordBits - 1
as_u64(x) == x % (U64_MAX + 1)

Users == {"u1", "u2"}
Nonces == {0, 1}
NoEpoch == 0 - 1

\* ---------------------------------------------------------------- addresses
\* find_program_address(seeds, program): injective in its seeds.
find_program_address(label, key, nonce) == <<label, key, nonce>>
Wallet(u) == <<"wallet", u, 0>>
ConfigPda == find_program_address("config", "-", 0)
StakeMain == find_program_address("stake_main", "-", 0)
StakeReserve == find_program_address("stake_reserve", "-", 0)
\* Variant: the split address derived from the withdrawer alone, the seeds of
\* the derivation left commented out in crank_split.rs.
SplitPda_without_nonce(u, n) == find_program_address("split_account", u, 0)
SplitPda(u, n) == find_program_address("split_account", u, n)
LstMint == <<"mint", "-", 0>>
\* The associated claim-token account of wallet u for the mint.
AtaOf(walletKey, tokenProgramKey, mintKey) ==
    <<"ata", walletKey[2],
      IF tokenProgramKey = <<"token_program", "-", 0>> /\ mintKey = LstMint
      THEN 0 ELSE 1>>
Validator == <<"vote", "-", 0>>
OtherValidator == <<"vote", "-", 1>>
Bogus == <<"bogus", "-", 0>>
SYSTEM_PROGRAM_ID == <<"system_program", "-", 0>>
STAKE_PROGRAM_ID == <<"stake_program", "-", 0>>
TOKEN_PROGRAM_ID == <<"token_program", "-", 0>>
ASSOCIATED_TOKEN_PROGRAM_ID == <<"associated_token_program", "-", 0>>
NoKey == <<"none", "-", 0>>

Wallets == {Wallet(u) : u \in Users}
SplitAddrs == {SplitPda(u, n) : u \in Users, n \in Nonces}
StakeAddrs == {StakeMain, StakeReserve} \cup SplitAddrs
Atas == {AtaOf(Wallet(u), TOKEN_PROGRAM_ID, LstMint) : u \in Users}
Programs == {SYSTEM_PROGRAM_ID, STAKE_PROGRAM_ID, TOKEN_PROGRAM_ID,
             ASSOCIATED_TOKEN_PROGRAM_ID}
Addrs == Wallets \cup StakeAddrs \cup Atas \cup Programs
         \cup {ConfigPda, LstMint, Validator, OtherValidator, Bogus}

\* What Initialize costs its payer, and what every wallet starts with.
InitializeCost == minimum_balance(ConfigLEN)
                  + 2 * (minimum_balance(STAKE_ACCOUNT_SPACE) + LAMPORTS_PER_SOL)
\* Every wallet can pay for one split account and one deposit; the first
\* user's wallet can pay for Initialize as well.
UserFunds == 2 * (minimum_balance(STAKE_ACCOUNT_SPACE) + LAMPORTS_PER_SOL)
InitialFunds(u) == IF u = "u1" THEN InitializeCost + UserFunds ELSE UserFunds
\* Amounts a caller may put in instruction data: around each minimum.
DepositAmounts == (LAMPORTS_PER_SOL - 1) .. (LAMPORTS_PER_SOL + 1)
SplitAmounts ==
    (minimum_balance(STAKE_ACCOUNT_SPACE) + LAMPORTS_PER_SOL - 1)
    .. (minimum_balance(STAKE_ACCOUNT_SPACE) + LAMPORTS_PER_SOL + 1)

\* ------------------------------------------------------------------- state
VARIABLES
    accounts,   \* address -> [lamports, owner, space]
    stake,      \* stake-record address -> [state, delegated, act, deact]
    config,     \* the Configuration Record's five fields
    supply,     \* claim-token mint supply
    token,      \* claim-token account address -> amount held
    epoch,      \* the ledger clock's epoch
    yield,      \* staking rewards credited to main so far
    open,       \* (withdrawer, nonce) pairs split and not yet withdrawn
    done,       \* (withdrawer, nonce) pairs for which a split ever succeeded
    calls,      \* instruction name -> how many times it has taken effect
    steps,      \* how many steps the ledger has taken
    last        \* the last step that took effect: [op, who, amount, nonce]

vars == <<accounts, stake, config, supply, token, epoch, yield, open, done,
          calls, steps, last>>

EmptyAccount == [lamports |-> 0, owner |-> "system", space |-> 0]
ZeroStake == [state |-> 0, delegated |-> 0, act |-> 0, deact |-> NoEpoch,
              voter |-> NoKey]
ZeroConfig == [admin |-> NoKey, lst_mint |-> NoKey, stake_account_main |-> NoKey,
               stake_account_reserve |-> NoKey, validator_vote_pubkey |-> NoKey]

\* The accounts an instruction works on, threaded through its steps.
World == [acc |-> accounts, stk |-> stake, cfg |-> config, sup |-> supply,
          tok |-> token]
Ok(w) == [ok |-> TRUE, err |-> "", w |-> w]
Err(e, w) == [ok |-> FALSE, err |-> e, w |-> w]

\* ------------------------------------------------------ the system program
\* CreateAccount: the new address must hold nothing yet and must sign (a
\* derived address signs through its seeds); the payer funds it.
CreateAccount(w, from, to, lamports, space, owner, toSigned) ==
    IF ~toSigned THEN Err("MissingRequiredSignature", w)
    ELSE IF w.acc[to].lamports > 0 \/ w.acc[to].space > 0
            \/ w.acc[to].owner # "system"
    THEN Err("AccountAlreadyInUse", w)
    ELSE IF from = to \/ w.acc[from].owner # "system" \/ w.acc[from].space > 0
            \/ w.acc[from].lamports < lamports
    THEN Err("InsufficientFunds", w)
    ELSE Ok([w EXCEPT !.acc[from].lamports = @ - lamports,
                      !.acc[to] = [lamports |-> lamports, owner |-> owner,
                                   space |-> space]])

SystemTransfer(w, from, to, lamports) ==
    IF w.acc[from].owner # "system" \/ w.acc[from].space > 0
       \/ w.acc[from].lamports < lamports
    THEN Err("InsufficientFunds", w)
    ELSE IF from = to THEN Ok(w)
    ELSE IF w.acc[to].lamports + lamports > U64_MAX
    THEN Err("ArithmeticOverflow", w)
    ELSE Ok([w EXCEPT !.acc[from].lamports = @ - lamports,
                      !.acc[to].lamports = @ + lamports])

\* ------------------------------------------------------- the token program
IsMint(w, a) == w.acc[a].owner = "token" /\ w.acc[a].space = MintLEN
IsTokenAccount(w, a) == w.acc[a].owner = "token" /\ w.acc[a].space = TokenAccountLEN
\* The mint's authority is the config address; it signs through its seeds.
TokenMintTo(w, mint, account, authority, amount) ==
    IF ~IsMint(w, mint) \/ ~IsTokenAccount(w, account) \/ account \notin Atas
    THEN Err("InvalidAccountData", w)
    ELSE IF authority # ConfigPda THEN Err("OwnerMismatch", w)
    ELSE IF w.sup + amount > U64_MAX \/ w.tok[account] + amount > U64_MAX
    THEN Err("Overflow", w)
    ELSE Ok([w EXCEPT !.sup = @ + amount, !.tok[account] = @ + amount])

TokenBurn(w, account, mint, authority, authoritySigned, amount) ==
    IF ~IsMint(w, mint) \/ ~IsTokenAccount(w, account) \/ account \notin Atas
    THEN Err("InvalidAccountData", w)
    ELSE IF ~authoritySigned
            \/ account # AtaOf(authority, TOKEN_PROGRAM_ID, LstMint)
    THEN Err("OwnerMismatch", w)
    ELSE IF w.tok[account] < amount THEN Err("InsufficientFunds", w)
    ELSE Ok([w EXCEPT !.sup = @ - amount, !.tok[account] = @ - amount])

\* ------------------------------------------------ the external stake program
IsStakeRecord(w, a) ==
    a \in StakeAddrs /\ w.acc[a].owner = "stake"
    /\ w.acc[a].space = STAKE_ACCOUNT_SPACE
\* Stake that counts at epoch e: none while activating, none once cooled down.
Activating(s, e) == s.state = 2 /\ s.deact = NoEpoch /\ e = s.act
FullyActive(s, e) == s.state = 2 /\ s.deact = NoEpoch /\ e > s.act
Inactive(s, e) ==
    \/ s.state = 1
    \/ s.state = 2 /\ s.deact # NoEpoch /\ (s.deact = s.act \/ e > s.deact)
EffectiveStake(s, e) ==
    IF s.state = 2 /\ ~Activating(s, e) /\ ~Inactive(s, e) THEN s.delegated ELSE 0

StakeInitialize(w, a) ==
    IF ~IsStakeRecord(w, a) \/ w.stk[a].state # 0
    THEN Err("InvalidAccountData", w)
    ELSE IF w.acc[a].lamports < minimum_balance(STAKE_ACCOUNT_SPACE)
    THEN Err("InsufficientFunds", w)
    ELSE Ok([w EXCEPT !.stk[a].state = 1])

StakeDelegate(w, a, vote, e) ==
    LET amount == w.acc[a].lamports - minimum_balance(STAKE_ACCOUNT_SPACE)
        fresh == [state |-> 2, delegated |-> amount, act |-> e, deact |-> NoEpoch,
                  voter |-> vote]
    IN  IF ~IsStakeRecord(w, a) \/ w.stk[a].state = 0
        THEN Err("InvalidAccountData", w)
        ELSE IF w.acc[vote].owner # "vote" THEN Err("IncorrectProgramId", w)
        ELSE IF amount < MinimumDelegation THEN Err("InsufficientDelegation", w)
        ELSE IF w.stk[a].state = 2 /\ EffectiveStake(w.stk[a], e) # 0
        THEN Err("TooSoonToRedelegate", w)
        ELSE Ok([w EXCEPT !.stk[a] = fresh])

StakeSplit(w, src, dst, lamports, e) ==
    LET rent == minimum_balance(STAKE_ACCOUNT_SPACE)
        s == w.stk[src]
        remaining == w.acc[src].lamports - lamports
        full == remaining = 0
        delta == IF full THEN (IF lamports > rent THEN lamports - rent ELSE 0)
                 ELSE lamports
        deficit == IF w.acc[dst].lamports >= rent THEN 0
                   ELSE rent - w.acc[dst].lamports
        splitStake == IF full THEN delta
                      ELSE (IF lamports > deficit THEN lamports - deficit ELSE 0)
    IN  IF src = dst \/ ~IsStakeRecord(w, src) \/ ~IsStakeRecord(w, dst)
           \/ s.state # 2 \/ w.stk[dst].state # 0
        THEN Err("InvalidAccountData", w)
        ELSE IF lamports > w.acc[src].lamports
                \/ (~full /\ remaining < rent + MinimumDelegation)
                \/ w.acc[dst].lamports + lamports < rent + MinimumDelegation
                \/ (EffectiveStake(s, e) # 0 /\ w.acc[dst].lamports < rent)
        THEN Err("InsufficientFunds", w)
        ELSE IF delta > s.delegated THEN Err("InsufficientStake", w)
        ELSE Ok([w EXCEPT
                   !.acc[src].lamports = @ - lamports,
                   !.acc[dst].lamports = @ + lamports,
                   !.stk[src] = IF full THEN ZeroStake
                                ELSE [s EXCEPT !.delegated = @ - delta],
                   !.stk[dst] = [s EXCEPT !.delegated = splitStake]])

StakeDeactivate(w, a, e) ==
    IF ~IsStakeRecord(w, a) \/ w.stk[a].state # 2
    THEN Err("InvalidAccountData", w)
    ELSE IF w.stk[a].deact # NoEpoch THEN Err("AlreadyDeactivated", w)
    ELSE Ok([w EXCEPT !.stk[a].deact = e])

MergeKind(s, e) ==
    IF s.state = 0 THEN "None"
    ELSE IF Inactive(s, e) THEN "Inactive"
    ELSE IF Activating(s, e) THEN "ActivationEpoch"
    ELSE IF FullyActive(s, e) THEN "FullyActive"
    ELSE "Transient"

StakeMerge(w, dst, src, e) ==
    LET d == MergeKind(w.stk[dst], e)
        s == MergeKind(w.stk[src], e)
        add == IF d = "ActivationEpoch" THEN w.acc[src].lamports
               ELSE IF d = "FullyActive" THEN w.stk[src].delegated
               ELSE 0
    IN  IF src = dst \/ ~IsStakeRecord(w, dst) \/ ~IsStakeRecord(w, src)
           \/ d = "None" \/ s = "None"
        THEN Err("InvalidAccountData", w)
        ELSE IF d = "Transient" \/ s = "Transient"
        THEN Err("MergeTransientStake", w)
        ELSE IF ~(\/ d = "Inactive" /\ s \in {"Inactive", "ActivationEpoch"}
                  \/ d = "ActivationEpoch" /\ s \in {"Inactive", "ActivationEpoch"}
                  \/ d = "FullyActive" /\ s = "FullyActive")
        THEN Err("MergeMismatch", w)
        ELSE IF d # "Inactive" /\ s # "Inactive"
                /\ w.stk[dst].voter # w.stk[src].voter
        THEN Err("MergeMismatch", w)
        ELSE Ok([w EXCEPT
                   !.acc[dst].lamports = @ + w.acc[src].lamports,
                   !.acc[src].lamports = 0,
                   !.stk[dst].delegated = @ + add,
                   !.stk[src] = ZeroStake])

StakeWithdraw(w, a, to, lamports, e) ==
    LET s == w.stk[a]
        staked == IF s.deact # NoEpoch /\ e >= s.deact
                  THEN EffectiveStake(s, e) ELSE s.delegated
    IN  IF a = to \/ ~IsStakeRecord(w, a) THEN Err("InvalidAccountData", w)
        ELSE IF s.state = 0 THEN Err("MissingRequiredSignature", w)
        ELSE IF lamports > w.acc[a].lamports
                \/ (s.state = 2 /\ lamports = w.acc[a].lamports /\ staked # 0)
                \/ (s.state = 2 /\ lamports # w.acc[a].lamports
                    /\ lamports + staked + minimum_balance(STAKE_ACCOUNT_SPACE)
                       > w.acc[a].lamports)
        THEN Err("InsufficientFunds", w)
        ELSE Ok([w EXCEPT
                   !.acc[a].lamports = @ - lamports,
                   !.acc[to].lamports = @ + lamports,
                   !.stk[a] = IF lamports = w.acc[a].lamports THEN ZeroStake
                              ELSE s])

\* ------------------------------------------------------------- the ledger
\* A record left with no balance when an instruction ends ceases to exist:
\* its address is again an empty, system-owned account.
Settle(w) ==
    [w EXCEPT
       !.acc = [a \in Addrs |->
                  IF w.acc[a].lamports = 0 /\ a \notin Programs
                  THEN EmptyAccount ELSE w.acc[a]],
       !.stk = [a \in StakeAddrs |->
                  IF w.acc[a].lamports = 0 THEN ZeroStake ELSE w.stk[a]],
       !.tok = [a \in Atas |->
                  IF w.acc[a].lamports = 0 THEN 0 ELSE w.tok[a]],
       !.cfg = IF w.acc[ConfigPda].lamports = 0 THEN ZeroConfig ELSE w.cfg]

\* ------------------------------------------------------- account checks
\* A variant that takes every account for a signer.
SignerAccount_check_anyone(isSigner) == TRUE
\* SignerAccount::check: the account has signed the transaction.
SignerAccount_check(isSigner) == isSigner
SystemAccount_check(w, a) == w.acc[a].owner = "system"
MintAccount_check(w, a) == w.acc[a].owner = "token" /\ w.acc[a].space = MintLEN
TokenAccount_check(w, a) ==
    w.acc[a].owner = "token" /\ w.acc[a].space = TokenAccountLEN
AssociatedTokenAccount_check(w, account, authority, mint, tokenProgram) ==
    TokenAccount_check(w, account)
    /\ AtaOf(authority, tokenProgram, mint) = account

\* MintAccount::init: create the mint record, then initialise it.
MintAccount_init(w, account, accountSigned, payer) ==
    CreateAccount(w, payer, account, minimum_balance(MintLEN), MintLEN,
                  "token", accountSigned)
MintAccount_init_if_needed(w, account, accountSigned, payer) ==
    IF MintAccount_check(w, account) THEN Ok(w)
    ELSE MintAccount_init(w, account, accountSigned, payer)

\* AssociatedTokenAccount::init: the associated-token program creates the
\* account at the address derived from (wallet, token program, mint).
AssociatedTokenAccount_init(w, account, mint, payer, owner, tokenProgram) ==
    IF account # AtaOf(owner, tokenProgram, mint) \/ account \notin Atas
       \/ ~IsMint(w, mint)
    THEN Err("InvalidSeeds", w)
    ELSE CreateAccount(w, payer, account, minimum_balance(TokenAccountLEN),
                       TokenAccountLEN, "token", TRUE)
AssociatedTokenAccount_init_if_needed(w, account, mint, payer, owner, tp) ==
    IF AssociatedTokenAccount_check(w, account, payer, mint, tp)
    THEN Ok(w)
    ELSE AssociatedTokenAccount_init(w, account, mint, payer, owner, tp)

\* ------------------------------------------------------ ProgramAccount helpers
ProgramAccount_init(w, payer, account, seedsKey, space) ==
    CreateAccount(w, payer, account, minimum_balance(space), space, "program",
                  seedsKey = account)

\* A variant in which nobody pays for the new account.
stake_account_create_unpaid(w, payer, account, seedsKey) ==
    LET r == CreateAccount(w, payer, account,
                           minimum_balance(STAKE_ACCOUNT_SPACE) + LAMPORTS_PER_SOL,
                           STAKE_ACCOUNT_SPACE, "stake", seedsKey = account)
    IN  IF r.ok THEN Ok([r.w EXCEPT !.acc[payer] = w.acc[payer]]) ELSE r

stake_account_create(w, payer, account, seedsKey) ==
    CreateAccount(w, payer, account,
                  minimum_balance(STAKE_ACCOUNT_SPACE) + LAMPORTS_PER_SOL,
                  STAKE_ACCOUNT_SPACE, "stake", seedsKey = account)

\* The stake authority of every record the pool creates is the config
\* address, which signs through the config seeds.
initialize_stake_account_no_lockup(w, account) == StakeInitialize(w, account)
delegate_stake_account(w, account, vote, e) == StakeDelegate(w, account, vote, e)
\* A variant that merges in the opposite direction.
merge_stake_account_reversed(w, destination, source, e) ==
    StakeMerge(w, source, destination, e)
\* Merge of source into destination, all of its balance included.
merge_stake_account(w, destination, source, e) ==
    StakeMerge(w, destination, source, e)
\* A variant that splits off no more than the source holds.
split_stake_account_capped(w, source, destination, lamports, e) ==
    StakeSplit(w, source, destination,
               IF lamports > w.acc[source].lamports
               THEN w.acc[source].lamports ELSE lamports, e)
\* Split of the requested lamports from source into destination.
split_stake_account(w, source, destination, lamports, e) ==
    StakeSplit(w, source, destination, lamports, e)
\* A variant that leaves the position as it is.
deactivate_stake_account_skipped(w, account, e) == Ok(w)
deactivate_stake_account(w, account, e) == StakeDeactivate(w, account, e)
\* A variant that leaves the rent-exempt minimum behind in the position.
withdraw_stake_account_leaving_rent(w, account, withdrawer, e) ==
    StakeWithdraw(w, account, withdrawer,
                  w.acc[account].lamports
                  - minimum_balance(STAKE_ACCOUNT_SPACE), e)

\* Asks for the whole balance the record holds when the call is made.
withdraw_stake_account(w, account, withdrawer, e) ==
    StakeWithdraw(w, account, withdrawer, w.acc[account].lamports, e)

\* Config::load: the record must be exactly Config::LEN bytes long.
Config_load(w, a) == w.acc[a].space = ConfigLEN
\* The first four bytes of a record, little-endian; FALSE when the record is
\* shorter than four bytes (the slice panics). Records that are not stake
\* records read as a value this program gives no meaning to.
HasDiscriminant(w, a) == w.acc[a].space >= 4
Discriminant(w, a) == IF a \in StakeAddrs THEN w.stk[a].state ELSE 3

\* ------------------------------------------------------------- Initialize
InitializeAccounts_try_from(w, ix) ==
    IF ~SignerAccount_check(ix.initializer_signer) THEN "NotSigner"
    ELSE IF ~SignerAccount_check(ix.lst_mint_signer) THEN "NotSigner"
    ELSE IF ix.system_program # SYSTEM_PROGRAM_ID THEN "InvalidSystemProgram"
    ELSE IF ix.token_program # TOKEN_PROGRAM_ID THEN "InvalidTokenProgram"
    ELSE IF ~SystemAccount_check(w, ix.config_pda) THEN "InvalidOwner"
    ELSE IF w.acc[ix.config_pda].space # 0 THEN "AccountAlreadyInitialized"
    ELSE IF ~SystemAccount_check(w, ix.stake_account_main) THEN "InvalidOwner"
    ELSE IF w.acc[ix.stake_account_main].space # 0
    THEN "AccountAlreadyInitialized"
    ELSE IF ~SystemAccount_check(w, ix.stake_account_reserve) THEN "InvalidOwner"
    ELSE IF w.acc[ix.stake_account_reserve].space # 0
    THEN "AccountAlreadyInitialized"
    ELSE IF w.acc[ix.lst_mint].owner # "token" THEN "InvalidOwner"
    ELSE IF ~MintAccount_check(w, ix.lst_mint) THEN "InvalidAccountData"
    ELSE IF w.acc[ix.validator_vote_account].owner # "vote"
    THEN "InvalidValidatorVoteAccount"
    ELSE IF ix.stake_program # STAKE_PROGRAM_ID THEN "InvalidStakeProgram"
    ELSE IF ix.associated_token_program # ASSOCIATED_TOKEN_PROGRAM_ID
    THEN "InvalidAssociatedTokenProgram"
    ELSE ""

\* A variant that records main and reserve the wrong way round.
Config_set_inner_swapped(w, ix) ==
    [w EXCEPT !.cfg = [admin |-> ix.initializer,
                       lst_mint |-> ix.lst_mint,
                       stake_account_main |-> ix.stake_account_reserve,
                       stake_account_reserve |-> ix.stake_account_main,
                       validator_vote_pubkey |-> ix.validator_vote_account]]

\* Config::set_inner: the five fields as Initialize writes them.
Config_set_inner(w, ix) ==
    [w EXCEPT !.cfg = [admin |-> ix.initializer,
                       lst_mint |-> ix.lst_mint,
                       stake_account_main |-> ix.stake_account_main,
                       stake_account_reserve |-> ix.stake_account_reserve,
                       validator_vote_pubkey |-> ix.validator_vote_account]]

\* The steps of Initialize::process after the config record is written.
Initialize_reserve_and_mint(w, ix) ==
    IF find_program_address("stake_reserve", "-", 0) # ix.stake_account_reserve
    THEN Err("InvalidStakeAccountReserve", w)
    ELSE
    LET r1 == stake_account_create(w, ix.initializer, ix.stake_account_reserve,
                                   StakeReserve)
    IN  IF ~r1.ok THEN r1 ELSE
    LET r2 == MintAccount_init_if_needed(r1.w, ix.lst_mint, ix.lst_mint_signer,
                                         ix.initializer)
    IN  IF ~r2.ok THEN r2 ELSE
    LET r3 == AssociatedTokenAccount_init_if_needed(
                  r2.w, ix.initializer_ata, ix.lst_mint, ix.initializer,
                  ix.initializer, ix.token_program)
    IN  IF ~r3.ok THEN r3 ELSE
        TokenMintTo(r3.w, ix.lst_mint, ix.initializer_ata, ConfigPda,
                    BootstrapMint)

Initialize_process(w, ix, e) ==
    IF find_program_address("config", "-", 0) # ix.config_pda
    THEN Err("InvalidConfigPda", w)
    ELSE
    LET r1 == ProgramAccount_init(w, ix.initializer, ix.config_pda, ConfigPda,
                                  ConfigLEN)
    IN  IF ~r1.ok THEN r1 ELSE
    LET w2 == Config_set_inner(r1.w, ix)
    IN  IF find_program_address("stake_main", "-", 0) # ix.stake_account_main
        THEN Err("InvalidStakeAccountMain", w2) ELSE
    LET r3 == stake_account_create(w2, ix.initializer, ix.stake_account_main,
                                   StakeMain)
    IN  IF ~r3.ok THEN r3 ELSE
    LET r4 == initialize_stake_account_no_lockup(r3.w, ix.stake_account_main)
    IN  IF ~r4.ok THEN r4 ELSE
    LET r5 == delegate_stake_account(r4.w, ix.stake_account_main,
                                     ix.validator_vote_account, e)
    IN  IF ~r5.ok THEN r5 ELSE Initialize_reserve_and_mint(r5.w, ix)

\* A variant that, on a pool already set up, mints the bootstrap amount
\* again instead of refusing.
Initialize_run_again(w, ix, e) ==
    LET c == InitializeAccounts_try_from(w, ix)
    IN  IF c = "" THEN Initialize_process(w, ix, e)
        ELSE IF c \in {"InvalidOwner", "AccountAlreadyInitialized"}
        THEN TokenMintTo(w, ix.lst_mint, ix.initializer_ata, ConfigPda,
                         BootstrapMint)
        ELSE Err(c, w)

\* process_instruction for Initialize: the accounts are parsed and checked,
\* then processed.
Initialize_run(w, ix, e) ==
    LET c == InitializeAccounts_try_from(w, ix)
    IN  IF c # "" THEN Err(c, w) ELSE Initialize_process(w, ix, e)

\* The errors the program returns from its own checks; every other error of
\* a call comes out of a program it calls.
PinocchioError ==
    {"NotSigner", "InvalidOwner", "InvalidSystemProgram", "InvalidTokenProgram",
     "InvalidStakeProgram", "InvalidAssociatedTokenProgram",
     "InvalidValidatorVoteAccount", "InvalidConfigPda",
     "InvalidStakeAccountMain", "InvalidStakeAccountReserve", "InvalidLstMint",
     "InvalidDepositorAta", "InvalidWithdrawerAta", "InvalidSplitAccountPda",
     "DepositBelowMinimum", "SplitBelowMinimum", "ReserveAlreadyInitialized",
     "ReserveNotStaked", "InsufficientLstBalance", "InvalidValidatorVoteKey"}

\* ---------------------------------------------------------------- Deposit
DepositAccounts_try_from(w, ix) ==
    IF ~ix.depositor_signer THEN "NotSigner"
    ELSE IF ix.system_program # SYSTEM_PROGRAM_ID THEN "InvalidSystemProgram"
    ELSE IF ix.token_program # TOKEN_PROGRAM_ID THEN "InvalidTokenProgram"
    ELSE IF ix.stake_program # STAKE_PROGRAM_ID THEN "InvalidStakeProgram"
    ELSE ""

\* A variant that accepts every positive amount.
DepositData_try_from_positive(amount) ==
    IF amount < 1 THEN "DepositBelowMinimum" ELSE ""

\* DepositData::try_from: the amount is at least one SOL.
DepositData_try_from(amount) ==
    IF amount < LAMPORTS_PER_SOL THEN "DepositBelowMinimum" ELSE ""

\* The claim tokens a deposit mints, from the supply and the balances of the
\* accounts handed in as main and reserve.
lst_to_mint(amount, total_lst_supply, total_sol_in_pool) ==
    IF total_lst_supply = 0 \/ total_sol_in_pool = 0
    THEN amount
    ELSE as_u64((amount * total_lst_supply) \div total_sol_in_pool)

\* A variant that mints to whatever token account is handed in.
Deposit_process_any_ata(w, ix) ==
    IF find_program_address("config", "-", 0) # ix.config_pda
    THEN Err("InvalidConfigPda", w)
    ELSE IF ~Config_load(w, ix.config_pda) THEN Err("InvalidAccountData", w)
    ELSE IF ix.stake_account_reserve # w.cfg.stake_account_reserve
    THEN Err("InvalidStakeAccountReserve", w)
    ELSE IF ix.lst_mint # w.cfg.lst_mint THEN Err("InvalidLstMint", w)
    ELSE IF ~IsMint(w, ix.lst_mint) THEN Err("InvalidAccountData", w)
    ELSE
    LET total_sol_in_pool == w.acc[ix.stake_account_main].lamports
                             + w.acc[ix.stake_account_reserve].lamports
        minted == lst_to_mint(ix.amount, w.sup, total_sol_in_pool)
        r1 == SystemTransfer(w, ix.depositor, ix.stake_account_reserve,
                             ix.amount)
    IN  IF ~r1.ok THEN r1
        ELSE TokenMintTo(r1.w, ix.lst_mint, ix.depositor_ata, ix.config_pda,
                         minted)

\* A variant that pays the deposit into the main position.
Deposit_process_into_main(w, ix) ==
    IF find_program_address("config", "-", 0) # ix.config_pda
    THEN Err("InvalidConfigPda", w)
    ELSE IF ~Config_load(w, ix.config_pda) THEN Err("InvalidAccountData", w)
    ELSE IF ~IsMint(w, ix.lst_mint) THEN Err("InvalidAccountData", w)
    ELSE
    LET minted == lst_to_mint(ix.amount, w.sup,
                              w.acc[ix.stake_account_main].lamports
                              + w.acc[ix.stake_account_reserve].lamports)
        r1 == SystemTransfer(w, ix.depositor, ix.stake_account_main, ix.amount)
    IN  IF ~r1.ok THEN r1
        ELSE TokenMintTo(r1.w, ix.lst_mint, ix.depositor_ata, ix.config_pda,
                         minted)

\* A variant that also records the depositor as admin.
Deposit_process_as_admin(w, ix) ==
    LET r == Deposit_process_any_ata(w, ix)
    IN  IF r.ok THEN Ok([r.w EXCEPT !.cfg.admin = ix.depositor]) ELSE r

\* Deposit::process: config, reserve, mint and the depositor's token account
\* are compared with their expected values; the main stake account is only
\* read.
Deposit_process(w, ix) ==
    IF find_program_address("config", "-", 0) # ix.config_pda
    THEN Err("InvalidConfigPda", w)
    ELSE IF ~Config_load(w, ix.config_pda) THEN Err("InvalidAccountData", w)
    ELSE IF ix.stake_account_reserve # w.cfg.stake_account_reserve
    THEN Err("InvalidStakeAccountReserve", w)
    ELSE IF ix.lst_mint # w.cfg.lst_mint THEN Err("InvalidLstMint", w)
    ELSE IF AtaOf(ix.depositor, ix.token_program, ix.lst_mint) # ix.depositor_ata
    THEN Err("InvalidDepositorAta", w)
    ELSE IF ~IsMint(w, ix.lst_mint) THEN Err("InvalidAccountData", w)
    ELSE
    LET total_lst_supply == w.sup
        total_sol_in_pool == w.acc[ix.stake_account_main].lamports
                             + w.acc[ix.stake_account_reserve].lamports
        minted == lst_to_mint(ix.amount, total_lst_supply, total_sol_in_pool)
        r1 == SystemTransfer(w, ix.depositor, ix.stake_account_reserve,
                             ix.amount)
    IN  IF total_sol_in_pool > U64_MAX THEN Err("ArithmeticOverflow", w)
        ELSE IF ~r1.ok THEN r1
        ELSE TokenMintTo(r1.w, ix.lst_mint, ix.depositor_ata, ix.config_pda,
                         minted)

Deposit_run(w, ix) ==
    LET c == DepositAccounts_try_from(w, ix)
        d == DepositData_try_from(ix.amount)
    IN  IF c # "" THEN Err(c, w)
        ELSE IF d # "" THEN Err(d, w)
        ELSE Deposit_process(w, ix)

\* ------------------------------------------------- CrankInitializeReserve
CrankInitializeReserveAccounts_try_from(w, ix) ==
    IF ix.system_program # SYSTEM_PROGRAM_ID THEN "InvalidSystemProgram"
    ELSE IF ix.stake_program # STAKE_PROGRAM_ID THEN "InvalidStakeProgram"
    ELSE IF w.acc[ix.validator_vote_account].owner # "vote"
    THEN "InvalidValidatorVoteAccount"
    ELSE ""

\* The steps of CrankInitializeReserve::process after its checks.
CrankInitializeReserve_effect(w, ix, e) ==
    LET r1 == initialize_stake_account_no_lockup(w, ix.stake_account_reserve)
    IN  IF ~r1.ok THEN r1
        ELSE delegate_stake_account(r1.w, ix.stake_account_reserve,
                                    ix.validator_vote_account, e)

\* A variant that delegates to whatever validator is handed in.
CrankInitializeReserve_process_any_validator(w, ix, e) ==
    IF ~HasDiscriminant(w, ix.stake_account_reserve)
    THEN Err("Panic", w)
    ELSE IF Discriminant(w, ix.stake_account_reserve) # 0
    THEN Err("ReserveAlreadyInitialized", w)
    ELSE IF find_program_address("config", "-", 0) # ix.config_pda
    THEN Err("InvalidConfigPda", w)
    ELSE IF ~Config_load(w, ix.config_pda) THEN Err("InvalidAccountData", w)
    ELSE IF w.cfg.stake_account_reserve # ix.stake_account_reserve
    THEN Err("InvalidStakeAccountReserve", w)
    ELSE CrankInitializeReserve_effect(w, ix, e)

\* A variant that skips the lifecycle check and initialises the reserve only
\* when it is not initialised yet.
CrankInitializeReserve_process_unguarded(w, ix, e) ==
    IF ~HasDiscriminant(w, ix.stake_account_reserve)
    THEN Err("Panic", w)
    ELSE IF find_program_address("config", "-", 0) # ix.config_pda
    THEN Err("InvalidConfigPda", w)
    ELSE IF ~Config_load(w, ix.config_pda) THEN Err("InvalidAccountData", w)
    ELSE IF w.cfg.stake_account_reserve # ix.stake_account_reserve
    THEN Err("InvalidStakeAccountReserve", w)
    ELSE IF w.cfg.validator_vote_pubkey # ix.validator_vote_account
    THEN Err("InvalidValidatorVoteKey", w)
    ELSE IF Discriminant(w, ix.stake_account_reserve) # 0
    THEN delegate_stake_account(w, ix.stake_account_reserve,
                                ix.validator_vote_account, e)
    ELSE CrankInitializeReserve_effect(w, ix, e)

CrankInitializeReserve_process(w, ix, e) ==
    IF ~HasDiscriminant(w, ix.stake_account_reserve)
    THEN Err("Panic", w)
    ELSE IF Discriminant(w, ix.stake_account_reserve) # 0
    THEN Err("ReserveAlreadyInitialized", w)
    ELSE IF find_program_address("config", "-", 0) # ix.config_pda
    THEN Err("InvalidConfigPda", w)
    ELSE IF ~Config_load(w, ix.config_pda) THEN Err("InvalidAccountData", w)
    ELSE IF w.cfg.stake_account_reserve # ix.stake_account_reserve
    THEN Err("InvalidStakeAccountReserve", w)
    ELSE IF w.cfg.validator_vote_pubkey # ix.validator_vote_account
    THEN Err("InvalidValidatorVoteKey", w)
    ELSE CrankInitializeReserve_effect(w, ix, e)

CrankInitializeReserve_run(w, ix, e) ==
    LET c == CrankInitializeReserveAccounts_try_from(w, ix)
    IN  IF c # "" THEN Err(c, w) ELSE CrankInitializeReserve_process(w, ix, e)

\* ------------------------------------------------------ CrankMergeReserve
CrankMergeReserveAccounts_try_from(w, ix) ==
    IF ix.system_program # SYSTEM_PROGRAM_ID THEN "InvalidSystemProgram"
    ELSE IF ix.stake_program # STAKE_PROGRAM_ID THEN "InvalidStakeProgram"
    ELSE ""

CrankMergeReserve_process(w, ix, e) ==
    IF ~HasDiscriminant(w, ix.stake_account_reserve)
    THEN Err("Panic", w)
    ELSE IF Discriminant(w, ix.stake_account_reserve) # 2
    THEN Err("ReserveNotStaked", w)
    ELSE IF find_program_address("config", "-", 0) # ix.config_pda
    THEN Err("InvalidConfigPda", w)
    ELSE IF ~Config_load(w, ix.config_pda) THEN Err("InvalidAccountData", w)
    ELSE IF w.cfg.stake_account_main # ix.stake_account_main
    THEN Err("InvalidStakeAccountMain", w)
    ELSE IF w.cfg.stake_account_reserve # ix.stake_account_reserve
    THEN Err("InvalidStakeAccountReserve", w)
    ELSE merge_stake_account(w, ix.stake_account_main,
                             ix.stake_account_reserve, e)

\* A variant that takes a lamport from the admin's wallet for every merge.
CrankMergeReserve_run_admin_pays(w, ix, e) ==
    LET c == CrankMergeReserveAccounts_try_from(w, ix)
        r == CrankMergeReserve_process(w, ix, e)
    IN  IF c # "" THEN Err(c, w)
        ELSE IF ~r.ok THEN r
        ELSE SystemTransfer(r.w, r.w.cfg.admin, ix.stake_account_main, 1)

\* process_instruction for CrankMergeReserve: no account of the call is
\* required to sign.
CrankMergeReserve_run(w, ix, e) ==
    LET c == CrankMergeReserveAccounts_try_from(w, ix)
    IN  IF c # "" THEN Err(c, w) ELSE CrankMergeReserve_process(w, ix, e)

\* ------------------------------------------------------------- CrankSplit
CrankSplitAccounts_try_from(w, ix) ==
    IF ~SignerAccount_check(ix.withdrawer_signer) THEN "NotSigner"
    ELSE IF ix.system_program # SYSTEM_PROGRAM_ID THEN "InvalidSystemProgram"
    ELSE IF ix.stake_program # STAKE_PROGRAM_ID THEN "InvalidStakeProgram"
    ELSE IF ix.token_program # TOKEN_PROGRAM_ID THEN "InvalidTokenProgram"
    ELSE ""

\* A variant that only asks for the rent-exempt minimum.
CrankSplitInstructionData_try_from_rent(amount) ==
    IF amount < minimum_balance(200) THEN "SplitBelowMinimum" ELSE ""

\* CrankSplitInstructionData::try_from: the amount is at least the
\* rent-exempt minimum of a stake record plus one SOL.
CrankSplitInstructionData_try_from(amount) ==
    IF amount < minimum_balance(200) + LAMPORTS_PER_SOL
    THEN "SplitBelowMinimum" ELSE ""

\* A variant that rounds the burn up instead of down.
lst_to_burn_rounded_up(split, supply_mint, managed) ==
    (split * supply_mint + managed - 1) \div managed

\* The claim tokens a split burns, from the supply and the three balances
\* read after the split.
lst_to_burn(lamports_to_split, total_supply_mint, total_lamports_managed) ==
    as_u64((lamports_to_split * total_supply_mint) \div total_lamports_managed)

\* A variant that burns what the withdrawer holds when that is less than
\* the computed amount.
CrankSplit_burn_at_most(w, ix) ==
    LET managed == w.acc[ix.stake_account_main].lamports
                   + w.acc[ix.stake_account_reserve].lamports
                   + w.acc[ix.new_stake_account].lamports
        burn == lst_to_burn(ix.amount, w.sup, managed)
    IN  IF ~IsMint(w, ix.lst_mint) \/ ~IsTokenAccount(w, ix.withdrawer_ata)
        THEN Err("InvalidAccountData", w)
        ELSE TokenBurn(w, ix.withdrawer_ata, ix.lst_mint, ix.withdrawer,
                       ix.withdrawer_signer,
                       IF w.tok[ix.withdrawer_ata] < burn
                       THEN w.tok[ix.withdrawer_ata] ELSE burn)

\* The burn of CrankSplit::process, once the new record is split off.
CrankSplit_burn(w, ix) ==
    IF ~IsMint(w, ix.lst_mint) THEN Err("InvalidAccountData", w)
    ELSE
    LET total_supply_mint == w.sup
        total_lamports_managed == w.acc[ix.stake_account_main].lamports
                                  + w.acc[ix.stake_account_reserve].lamports
                                  + w.acc[ix.new_stake_account].lamports
    IN  IF total_lamports_managed > U64_MAX \/ total_lamports_managed = 0
        THEN Err("ArithmeticOverflow", w)
        ELSE IF ~IsTokenAccount(w, ix.withdrawer_ata)
        THEN Err("InvalidAccountData", w)
        ELSE
        LET burn == lst_to_burn(ix.amount, total_supply_mint,
                                total_lamports_managed)
        IN  IF w.tok[ix.withdrawer_ata] < burn
            THEN Err("InsufficientLstBalance", w)
            ELSE TokenBurn(w, ix.withdrawer_ata, ix.lst_mint, ix.withdrawer,
                           ix.withdrawer_signer, burn)

CrankSplit_process(w, ix, e) ==
    IF ix.config_pda # find_program_address("config", "-", 0)
    THEN Err("InvalidConfigPda", w)
    ELSE IF ~Config_load(w, ix.config_pda) THEN Err("InvalidAccountData", w)
    ELSE IF w.cfg.stake_account_main # ix.stake_account_main
    THEN Err("InvalidStakeAccountMain", w)
    ELSE IF w.cfg.stake_account_reserve # ix.stake_account_reserve
    THEN Err("InvalidStakeAccountReserve", w)
    ELSE IF w.cfg.lst_mint # ix.lst_mint THEN Err("InvalidLstMint", w)
    ELSE IF AtaOf(ix.withdrawer, ix.token_program, ix.lst_mint)
            # ix.withdrawer_ata
    THEN Err("InvalidWithdrawerAta", w)
    ELSE IF find_program_address("split_account", ix.withdrawer[2], ix.nonce)
            # ix.new_stake_account
    THEN Err("InvalidSplitAccountPda", w)
    ELSE
    LET r1 == stake_account_create(w, ix.withdrawer, ix.new_stake_account,
                                   SplitPda(ix.withdrawer[2], ix.nonce))
    IN  IF ~r1.ok THEN r1 ELSE
    LET r2 == split_stake_account(r1.w, ix.stake_account_main,
                                  ix.new_stake_account, ix.amount, e)
    IN  IF ~r2.ok THEN r2 ELSE
    LET r3 == deactivate_stake_account(r2.w, ix.new_stake_account, e)
    IN  IF ~r3.ok THEN r3 ELSE CrankSplit_burn(r3.w, ix)

CrankSplit_run(w, ix, e) ==
    LET c == CrankSplitAccounts_try_from(w, ix)
        d == CrankSplitInstructionData_try_from(ix.amount)
    IN  IF c # "" THEN Err(c, w)
        ELSE IF d # "" THEN Err(d, w)
        ELSE CrankSplit_process(w, ix, e)

\* --------------------------------------------------------------- Withdraw
WithdrawAccounts_try_from(w, ix) ==
    IF ~SignerAccount_check(ix.withdrawer_signer) THEN "NotSigner"
    ELSE IF ix.stake_program # STAKE_PROGRAM_ID THEN "InvalidStakeProgram"
    ELSE ""

\* A variant that does not re-derive the split position's address.
Withdraw_process_unchecked(w, ix, e) ==
    IF ix.config_pda # find_program_address("config", "-", 0)
    THEN Err("InvalidConfigPda", w)
    ELSE withdraw_stake_account(w, ix.account_to_withdraw_from, ix.withdrawer, e)

\* A variant that accepts any account in the config slot.
Withdraw_process_any_config(w, ix, e) ==
    IF ix.account_to_withdraw_from
       # find_program_address("split_account", ix.withdrawer[2], ix.nonce)
    THEN Err("InvalidSplitAccountPda", w)
    ELSE withdraw_stake_account(w, ix.account_to_withdraw_from, ix.withdrawer, e)

\* A variant that burns one claim token of the withdrawer at the withdrawal.
Withdraw_process_burning(w, ix, e) ==
    LET r == withdraw_stake_account(w, ix.account_to_withdraw_from,
                                    ix.withdrawer, e)
        ata == AtaOf(ix.withdrawer, TOKEN_PROGRAM_ID, LstMint)
    IN  IF r.ok /\ r.w.tok[ata] > 0
        THEN Ok([r.w EXCEPT !.sup = @ - 1, !.tok[ata] = @ - 1])
        ELSE r

\* A variant with a timer of the program's own: no withdrawal before epoch 2.
Withdraw_process_own_timer(w, ix, e) ==
    IF e < 2 THEN Err("Custom", w)
    ELSE withdraw_stake_account(w, ix.account_to_withdraw_from, ix.withdrawer, e)

\* Withdraw::process: the config address and the split address are derived
\* again and compared before the position is drained.
Withdraw_process(w, ix, e) ==
    IF ix.config_pda # find_program_address("config", "-", 0)
    THEN Err("InvalidConfigPda", w)
    ELSE IF ix.account_to_withdraw_from
            # find_program_address("split_account", ix.withdrawer[2], ix.nonce)
    THEN Err("InvalidSplitAccountPda", w)
    ELSE withdraw_stake_account(w, ix.account_to_withdraw_from, ix.withdrawer, e)

Withdraw_run(w, ix, e) ==
    LET c == WithdrawAccounts_try_from(w, ix)
    IN  IF c # "" THEN Err(c, w) ELSE Withdraw_process(w, ix, e)

\* ------------------------------------------------ what callers can submit
\* A caller hands in any addresses it likes. The inputs explored are the
\* well-formed call and every call that differs from it in one slot.
Substituted(h, fields, keys) == {[h EXCEPT ![f] = k] : f \in fields, k \in keys}
Unsigned(h, fields) == {[h EXCEPT ![f] = FALSE] : f \in fields}

InitializeIx(u) ==
    [initializer |-> Wallet(u), initializer_signer |-> TRUE,
     initializer_ata |-> AtaOf(Wallet(u), TOKEN_PROGRAM_ID, LstMint),
     config_pda |-> ConfigPda, stake_account_main |-> StakeMain,
     stake_account_reserve |-> StakeReserve, lst_mint |-> LstMint,
     lst_mint_signer |-> TRUE, validator_vote_account |-> Validator,
     system_program |-> SYSTEM_PROGRAM_ID, stake_program |-> STAKE_PROGRAM_ID,
     token_program |-> TOKEN_PROGRAM_ID,
     associated_token_program |-> ASSOCIATED_TOKEN_PROGRAM_ID]
InitializeInputs ==
    UNION {{InitializeIx(u)}
           \cup Substituted(InitializeIx(u),
                  {"initializer_ata", "config_pda", "stake_account_main",
                   "stake_account_reserve", "lst_mint", "validator_vote_account",
                   "system_program", "stake_program", "token_program",
                   "associated_token_program"}, {Bogus})
           \cup Unsigned(InitializeIx(u), {"initializer_signer", "lst_mint_signer"})
           : u \in Users}

CrankInitializeReserveIx ==
    [config_pda |-> ConfigPda, stake_account_reserve |-> StakeReserve,
     validator_vote_account |-> Validator,
     system_program |-> SYSTEM_PROGRAM_ID, stake_program |-> STAKE_PROGRAM_ID]
CrankInitializeReserveInputs ==
    {CrankInitializeReserveIx}
    \cup Substituted(CrankInitializeReserveIx,
           {"config_pda", "stake_account_reserve", "validator_vote_account",
            "system_program", "stake_program"},
           {Bogus, StakeMain, OtherValidator})

CrankMergeReserveIx ==
    [config_pda |-> ConfigPda, stake_account_main |-> StakeMain,
     stake_account_reserve |-> StakeReserve,
     system_program |-> SYSTEM_PROGRAM_ID, stake_program |-> STAKE_PROGRAM_ID]
CrankMergeReserveInputs ==
    {CrankMergeReserveIx}
    \cup Substituted(CrankMergeReserveIx,
           {"config_pda", "stake_account_main", "stake_account_reserve",
            "system_program", "stake_program"}, {Bogus, StakeMain})

DepositIx(u, a) ==
    [config_pda |-> ConfigPda, depositor |-> Wallet(u), depositor_signer |-> TRUE,
     depositor_ata |-> AtaOf(Wallet(u), TOKEN_PROGRAM_ID, LstMint),
     lst_mint |-> LstMint, stake_account_main |-> StakeMain,
     stake_account_reserve |-> StakeReserve,
     stake_program |-> STAKE_PROGRAM_ID, token_program |-> TOKEN_PROGRAM_ID,
     system_program |-> SYSTEM_PROGRAM_ID, amount |-> a]
DepositInputs ==
    UNION {{DepositIx(u, a)}
           \cup Substituted(DepositIx(u, a),
                  {"config_pda", "depositor_ata", "lst_mint",
                   "stake_account_main", "stake_account_reserve",
                   "stake_program", "token_program", "system_program"}, {Bogus})
           \cup Unsigned(DepositIx(u, a), {"depositor_signer"})
           : u \in Users, a \in DepositAmounts}

CrankSplitIx(u, a, n) ==
    [stake_account_main |-> StakeMain, stake_account_reserve |-> StakeReserve,
     withdrawer |-> Wallet(u), withdrawer_signer |-> TRUE,
     new_stake_account |-> SplitPda(u, n), config_pda |-> ConfigPda,
     withdrawer_ata |-> AtaOf(Wallet(u), TOKEN_PROGRAM_ID, LstMint),
     lst_mint |-> LstMint, token_program |-> TOKEN_PROGRAM_ID,
     stake_program |-> STAKE_PROGRAM_ID, system_program |-> SYSTEM_PROGRAM_ID,
     amount |-> a, nonce |-> n]
CrankSplitInputs ==
    UNION {{CrankSplitIx(u, a, n)}
           \cup Substituted(CrankSplitIx(u, a, n),
                  {"stake_account_main", "stake_account_reserve",
                   "new_stake_account", "config_pda", "withdrawer_ata",
                   "lst_mint", "token_program", "stake_program",
                   "system_program"}, {Bogus})
           \cup Unsigned(CrankSplitIx(u, a, n), {"withdrawer_signer"})
           : u \in Users, a \in SplitAmounts, n \in Nonces}

WithdrawIx(u, n, from) ==
    [account_to_withdraw_from |-> from, withdrawer |-> Wallet(u),
     withdrawer_signer |-> TRUE, config_pda |-> ConfigPda,
     stake_program |-> STAKE_PROGRAM_ID, nonce |-> n]
WithdrawInputs ==
    UNION {{WithdrawIx(u, n, from) : from \in SplitAddrs \cup {Bogus}}
           \cup Substituted(WithdrawIx(u, n, SplitPda(u, n)),
                  {"config_pda", "stake_program"}, {Bogus})
           \cup Unsigned(WithdrawIx(u, n, SplitPda(u, n)), {"withdrawer_signer"})
           : u \in Users, n \in Nonces}

\* ------------------------------------------------------------ transitions
Instructions == {"Initialize", "CrankInitializeReserve", "CrankMergeReserve",
                 "Deposit", "CrankSplit", "Withdraw"}

Success(op, who, amount, nonce) ==
    [op |-> op, who |-> who, amount |-> amount, nonce |-> nonce]

\* process_instruction: an Ok result commits what the instruction did and is
\* recorded in last. An Err result commits nothing at all: the ledger is as
\* if the instruction had never been sent, a stuttering step of Spec.
\* First a variant that keeps what a failed instruction did before it failed.
Commit_whatever_ran(r, op, who, amount, nonce) ==
    /\ steps < MaxSteps
    /\ steps' = steps + 1
    /\ LET w == Settle(r.w)
       IN  /\ accounts' = w.acc
           /\ stake' = w.stk
           /\ config' = w.cfg
           /\ supply' = w.sup
           /\ token' = w.tok
           /\ calls' = [calls EXCEPT ![op] = @ + 1]
           /\ last' = Success(op, who, amount, nonce)

\* process_instruction with the ledger's rollback of a failed instruction.
Commit(r, op, who, amount, nonce) ==
    /\ steps < MaxSteps
    /\ r.ok
    /\ steps' = steps + 1
    /\ LET w == Settle(r.w)
       IN  /\ accounts' = w.acc
           /\ stake' = w.stk
           /\ config' = w.cfg
           /\ supply' = w.sup
           /\ token' = w.tok
           /\ calls' = [calls EXCEPT ![op] = @ + 1]
           /\ last' = Success(op, who, amount, nonce)

\* The ledger before the pool exists: funded wallets, the users' token
\* accounts, the validators' vote accounts, the programs and, when
\* mintExists, the claim-token mint.
Genesis(mintExists) ==
    [a \in Addrs |->
       IF a \in Wallets
       THEN [lamports |-> InitialFunds(a[2]), owner |-> "system", space |-> 0]
       ELSE IF a \in Atas
       THEN [lamports |-> minimum_balance(TokenAccountLEN),
             owner |-> "token", space |-> TokenAccountLEN]
       ELSE IF a = LstMint /\ mintExists
       THEN [lamports |-> minimum_balance(MintLEN), owner |-> "token",
             space |-> MintLEN]
       ELSE IF a \in {Validator, OtherValidator}
       THEN [lamports |-> 1, owner |-> "vote", space |-> 1]
       ELSE IF a \in Programs
       THEN [lamports |-> 1, owner |-> "loader", space |-> 1]
       ELSE EmptyAccount]

Init ==
    /\ \E mintExists \in BOOLEAN : accounts = Genesis(mintExists)
    /\ stake = [a \in StakeAddrs |-> ZeroStake]
    /\ config = ZeroConfig
    /\ supply = 0
    /\ token = [a \in Atas |-> 0]
    /\ epoch = 0
    /\ yield = 0
    /\ open = {}
    /\ done = {}
    /\ calls = [op \in Instructions |-> 0]
    /\ steps = 0
    /\ last = Success("Start", "-", 0, 0)

Initialize ==
    \E ix \in InitializeInputs :
       /\ Commit(Initialize_run(World, ix, epoch), "Initialize",
                 ix.initializer[2], 0, 0)
       /\ UNCHANGED <<epoch, yield, open, done>>

CrankInitializeReserve ==
    \E ix \in CrankInitializeReserveInputs :
       /\ Commit(CrankInitializeReserve_run(World, ix, epoch),
                 "CrankInitializeReserve", "-", 0, 0)
       /\ UNCHANGED <<epoch, yield, open, done>>

CrankMergeReserve ==
    \E ix \in CrankMergeReserveInputs :
       /\ Commit(CrankMergeReserve_run(World, ix, epoch), "CrankMergeReserve",
                 "-", 0, 0)
       /\ UNCHANGED <<epoch, yield, open, done>>

Deposit ==
    \E ix \in DepositInputs :
       /\ Commit(Deposit_run(World, ix), "Deposit", ix.depositor[2],
                 ix.amount, 0)
       /\ UNCHANGED <<epoch, yield, open, done>>

CrankSplit ==
    \E ix \in CrankSplitInputs :
       LET r == CrankSplit_run(World, ix, epoch)
           pair == <<ix.withdrawer[2], ix.nonce>>
       IN  /\ Commit(r, "CrankSplit", ix.withdrawer[2], ix.amount, ix.nonce)
           /\ open' = open \cup {pair}
           /\ done' = done \cup {pair}
           /\ UNCHANGED <<epoch, yield>>

Withdraw ==
    \E ix \in WithdrawInputs :
       LET r == Withdraw_run(World, ix, epoch)
           pair == <<ix.withdrawer[2], ix.nonce>>
       IN  /\ Commit(r, "Withdraw", ix.withdrawer[2], 0, ix.nonce)
           /\ open' = open \ {pair}
           /\ UNCHANGED <<epoch, yield, done>>

\* The ledger's clock moves to the next epoch.
AdvanceEpoch ==
    /\ steps < MaxSteps
    /\ steps' = steps + 1
    /\ epoch' = epoch + 1
    /\ last' = Success("AdvanceEpoch", "-", 0, 0)
    /\ UNCHANGED <<accounts, stake, config, supply, token, yield, open, done,
                   calls>>

\* The staking system credits a reward to the fully active main position.
AccrueYield ==
    /\ steps < MaxSteps
    /\ steps' = steps + 1
    /\ IsStakeRecord(World, StakeMain)
    /\ FullyActive(stake[StakeMain], epoch)
    /\ yield' = yield + 1
    /\ accounts' = [accounts EXCEPT ![StakeMain].lamports = @ + 1]
    /\ stake' = [stake EXCEPT ![StakeMain].delegated = @ + 1]
    /\ last' = Success("AccrueYield", "-", 0, 0)
    /\ UNCHANGED <<config, supply, token, epoch, open, done, calls>>

Next ==
    \/ Initialize
    \/ CrankInitializeReserve
    \/ CrankMergeReserve
    \/ Deposit
    \/ CrankSplit
    \/ Withdraw
    \/ AdvanceEpoch
    \/ AccrueYield

Spec == Init /\ [][Next]_vars

\* ------------------------------------------- the exchange rate at the limits
\* Deposits into a pool whose supply and balances lie anywhere in the range
\* of a u64: the pool as Initialize leaves it, with the supply (held by the
\* initializer), main's balance and the reserve's balance drawn from values
\* up to u64::MAX. A reserve holding nothing has been merged and is gone.
WideSupplies ==
    {BootstrapMint, 2 ^ (WordBits - 1), 2 ^ (WordBits - 1) + 1,
     U64_MAX - LAMPORTS_PER_SOL, U64_MAX - 1, U64_MAX}
WideMain ==
    {minimum_balance(STAKE_ACCOUNT_SPACE) + MinimumDelegation,
     minimum_balance(STAKE_ACCOUNT_SPACE) + LAMPORTS_PER_SOL, U64_MAX - 1}
WideReserve == {0, minimum_balance(STAKE_ACCOUNT_SPACE) + LAMPORTS_PER_SOL}

WidePool(s, m, r) ==
    LET g == [acc |-> Genesis(TRUE), stk |-> [a \in StakeAddrs |-> ZeroStake],
              cfg |-> ZeroConfig, sup |-> 0, tok |-> [a \in Atas |-> 0]]
        i == Initialize_run(g, InitializeIx("u1"), 0).w
    IN  Settle([i EXCEPT
                  !.sup = s,
                  !.tok[AtaOf(Wallet("u1"), TOKEN_PROGRAM_ID, LstMint)] = s,
                  !.acc[StakeMain].lamports = m,
                  !.stk[StakeMain].delegated =
                      m - minimum_balance(STAKE_ACCOUNT_SPACE),
                  !.acc[StakeReserve].lamports = r])

InitWide ==
    /\ \E s \in WideSupplies, m \in WideMain, r \in WideReserve :
         LET w == WidePool(s, m, r)
         IN  /\ accounts = w.acc
             /\ stake = w.stk
             /\ config = w.cfg
             /\ supply = w.sup
             /\ token = w.tok
    /\ epoch = 0
    /\ yield = 0
    /\ open = {}
    /\ done = {}
    /\ calls = [op \in Instructions |-> IF op = "Initialize" THEN 1 ELSE 0]
    /\ steps = 1
    /\ last = Success("Initialize", "u1", 0, 0)

NextWide == Deposit

SpecWide == InitWide /\ [][NextWide]_vars

\* ------------------------------------------------ exits that are followed up
\* The pool is used for LiveSteps steps as in Spec; whatever exits are open
\* then are still followed up. The staking system's clock keeps running
\* while a position is cooling down, and a withdrawer with an open position
\* keeps sending its Withdraw until it takes effect.
Ticked == IF steps < LiveSteps THEN steps + 1 ELSE steps

CooldownCompletes ==
    /\ \E pair \in open : ~Inactive(stake[SplitPda(pair[1], pair[2])], epoch)
    /\ epoch' = epoch + 1
    /\ steps' = Ticked
    /\ last' = Success("AdvanceEpoch", "-", 0, 0)
    /\ UNCHANGED <<accounts, stake, config, supply, token, yield, open, done,
                   calls>>

Retry(u, n) ==
    LET r == Withdraw_run(World, WithdrawIx(u, n, SplitPda(u, n)), epoch)
        w == Settle(r.w)
    IN  /\ <<u, n>> \in open
        /\ r.ok
        /\ accounts' = w.acc
        /\ stake' = w.stk
        /\ config' = w.cfg
        /\ supply' = w.sup
        /\ token' = w.tok
        /\ calls' = [calls EXCEPT !["Withdraw"] = @ + 1]
        /\ last' = Success("Withdraw", u, 0, n)
        /\ open' = open \ {<<u, n>>}
        /\ steps' = Ticked
        /\ UNCHANGED <<epoch, yield, done>>

NextLive ==
    \/ steps < LiveSteps /\ Initialize
    \/ steps < LiveSteps /\ CrankInitializeReserve
    \/ steps < LiveSteps /\ CrankMergeReserve
    \/ steps < LiveSteps /\ Deposit
    \/ steps < LiveSteps /\ CrankSplit
    \/ steps < LiveSteps /\ Withdraw
    \/ steps < LiveSteps /\ AdvanceEpoch
    \/ steps < LiveSteps /\ AccrueYield
    \/ CooldownCompletes
    \/ \E u \in Users, n \in Nonces : Retry(u, n)

SpecLive ==
    /\ Init
    /\ [][NextLive]_vars
    /\ WF_vars(CooldownCompletes)
    /\ WF_vars(\E u \in Users, n \in Nonces : Retry(u, n))

\* ------------------------------------------------- instructions on the wire
\* Instruction data is a sequence of bytes: one selector byte, then the
\* payload. Callers encode a u64 as eight little-endian bytes.
RECURSIVE from_le_bytes(_)
from_le_bytes(bytes) ==
    IF bytes = <<>> THEN 0 ELSE Head(bytes) + 256 * from_le_bytes(Tail(bytes))
to_le_bytes(x) == <<x % 256, (x \div 256) % 256, 0, 0, 0, 0, 0, 0>>

\* A variant that takes the first bytes of a payload that is long enough.
process_instruction_lenient(w, accts, instruction_data, e) ==
    IF instruction_data = <<>> THEN Err("InvalidInstructionData", w)
    ELSE
    LET data == Tail(instruction_data)
    IN  IF Head(instruction_data) = 3 /\ Len(data) >= 8
        THEN Deposit_run(w, [accts EXCEPT
                               !.amount = from_le_bytes(SubSeq(data, 1, 8))])
        ELSE Err("InvalidInstructionData", w)

\* process_instruction: the first byte selects the instruction; Initialize
\* and the two cranks ignore the payload, the other three check the accts
\* first and then decode a payload of exactly the expected length.
process_instruction(w, accts, instruction_data, e) ==
    IF instruction_data = <<>> THEN Err("InvalidInstructionData", w)
    ELSE
    LET sel  == Head(instruction_data)
        data == Tail(instruction_data)
    IN  IF sel = 0 THEN Initialize_run(w, accts, e)
        ELSE IF sel = 1 THEN CrankInitializeReserve_run(w, accts, e)
        ELSE IF sel = 2 THEN CrankMergeReserve_run(w, accts, e)
        ELSE IF sel = 3 THEN
            IF DepositAccounts_try_from(w, accts) # ""
            THEN Err(DepositAccounts_try_from(w, accts), w)
            ELSE IF Len(data) # 8 THEN Err("InvalidInstructionData", w)
            ELSE Deposit_run(w, [accts EXCEPT
                                   !.amount = from_le_bytes(SubSeq(data, 1, 8))])
        ELSE IF sel = 4 THEN
            IF CrankSplitAccounts_try_from(w, accts) # ""
            THEN Err(CrankSplitAccounts_try_from(w, accts), w)
            ELSE IF Len(data) # 8 + 8 THEN Err("InvalidInstructionData", w)
            ELSE CrankSplit_run(w, [accts EXCEPT
                                      !.amount = from_le_bytes(SubSeq(data, 1, 8)),
                                      !.nonce = from_le_bytes(SubSeq(data, 9, 16))],
                                e)
        ELSE IF sel = 5 THEN
            IF WithdrawAccounts_try_from(w, accts) # ""
            THEN Err(WithdrawAccounts_try_from(w, accts), w)
            ELSE IF Len(data) # 8 THEN Err("InvalidInstructionData", w)
            ELSE Withdraw_run(w, [accts EXCEPT
                                    !.nonce = from_le_bytes(SubSeq(data, 1, 8))],
                              e)
        ELSE Err("InvalidInstructionData", w)

\* The instruction a selector byte names.
Selected(sel) ==
    IF sel = 0 THEN "Initialize"
    ELSE IF sel = 1 THEN "CrankInitializeReserve"
    ELSE IF sel = 2 THEN "CrankMergeReserve"
    ELSE IF sel = 3 THEN "Deposit"
    ELSE IF sel = 4 THEN "CrankSplit"
    ELSE IF sel = 5 THEN "Withdraw"
    ELSE "none"

\* Payloads a caller may send: nothing, one or two encoded numbers, and each
\* of these one byte short or one byte long.
WireNumbers ==
    Nonces \cup {LAMPORTS_PER_SOL,
                 minimum_balance(STAKE_ACCOUNT_SPACE) + LAMPORTS_PER_SOL}
WirePayloads ==
    LET one == {to_le_bytes(a) : a \in WireNumbers}
        two == {to_le_bytes(minimum_balance(STAKE_ACCOUNT_SPACE)
                            + LAMPORTS_PER_SOL) \o to_le_bytes(n) : n \in Nonces}
        whole == one \cup two
    IN  {<<>>} \cup whole
        \cup {SubSeq(p, 1, Len(p) - 1) : p \in whole}
        \cup {p \o <<0>> : p \in whole}
\* Selector bytes: the six instructions, the next number and the last byte.
WireSelectors == 0 .. 6 \cup {255}
\* The accounts handed in with a selector: those of the instruction it names
\* (those of a Deposit when it names none).
WireAccounts(sel) ==
    IF sel = 0 THEN {InitializeIx(u) : u \in Users}
    ELSE IF sel = 1 THEN {CrankInitializeReserveIx}
    ELSE IF sel = 2 THEN {CrankMergeReserveIx}
    ELSE IF sel = 4 THEN {CrankSplitIx(u, 0, n) : u \in Users, n \in Nonces}
    ELSE IF sel = 5
    THEN {WithdrawIx(u, n, SplitPda(u, n)) : u \in Users, n \in Nonces}
    ELSE {DepositIx(u, 0) : u \in Users}
WireData == {<<>>} \cup {<<sel>> \o p : sel \in WireSelectors, p \in WirePayloads}

\* One transaction with one instruction for the program, as sent.
Submit ==
    \E instruction_data \in WireData \ {<<>>} :
       \E accts \in WireAccounts(Head(instruction_data)) :
          LET sel  == Head(instruction_data)
              data == Tail(instruction_data)
              r    == process_instruction(World, accts, instruction_data,
                                          epoch)
              who  == IF sel = 0 THEN accts.initializer[2]
                      ELSE IF sel = 3 THEN accts.depositor[2]
                      ELSE IF sel \in {4, 5} THEN accts.withdrawer[2]
                      ELSE "-"
              amount == IF sel \in {3, 4}
                        THEN from_le_bytes(SubSeq(data, 1, 8)) ELSE 0
              nonce  == IF sel = 4 THEN from_le_bytes(SubSeq(data, 9, 16))
                        ELSE IF sel = 5 THEN from_le_bytes(SubSeq(data, 1, 8))
                        ELSE 0
          IN  /\ Commit(r, Selected(sel), who, amount, nonce)
              /\ open' = IF sel = 4 THEN open \cup {<<who, nonce>>}
                         ELSE IF sel = 5 THEN open \ {<<who, nonce>>}
                         ELSE open
              /\ done' = IF sel = 4 THEN done \cup {<<who, nonce>>} ELSE done
              /\ UNCHANGED <<epoch, yield>>

NextWire == Submit

SpecWire == Init /\ [][NextWire]_vars

\* ------------------------------------------------------------- properties
\* The instruction op took effect in this step.
Took(op) == calls'[op] = calls[op] + 1
\* The pool's value: what main and reserve hold together.
PoolValue == accounts[StakeMain].lamports + accounts[StakeReserve].lamports
TokenAccountOf(u) == AtaOf(Wallet(u), TOKEN_PROGRAM_ID, LstMint)

\* C1: every Deposit of amount a that takes effect raises the supply and the
\* depositor's claim-token balance by floor(a * S / V) when S > 0 and V > 0,
\* and by a otherwise, with S the supply and V = main + reserve before it.
C1_DepositMintsFloor ==
    [][Took("Deposit") =>
         LET a == last'.amount
             minted == IF supply > 0 /\ PoolValue > 0
                       THEN (a * supply) \div PoolValue ELSE a
         IN  /\ supply' = supply + minted
             /\ token'[TokenAccountOf(last'.who)]
                = token[TokenAccountOf(last'.who)] + minted]_vars

\* C2: every CrankSplit of amount r that takes effect moves r out of main and
\* lowers the supply and the withdrawer's claim-token balance by
\* floor(r * S / V'), with S the supply before it and V' what main, reserve
\* and the new split position hold after the split.
C2_SplitBurnsFloor ==
    [][Took("CrankSplit") =>
         LET r == last'.amount
             split == SplitPda(last'.who, last'.nonce)
             after == accounts'[StakeMain].lamports
                      + accounts'[StakeReserve].lamports
                      + accounts'[split].lamports
             burn == (r * supply) \div after
         IN  /\ accounts'[StakeMain].lamports = accounts[StakeMain].lamports - r
             /\ supply' = supply - burn
             /\ token'[TokenAccountOf(last'.who)]
                = token[TokenAccountOf(last'.who)] - burn]_vars

\* A split has burnt claim tokens: no deposit has been made and the supply is
\* below what Initialize minted.
C2_SplitBurned ==
    /\ last.op = "CrankSplit"
    /\ calls["Deposit"] = 0
    /\ supply < BootstrapMint

\* C3: a CrankSplit that takes effect never lowers the value backing each
\* remaining claim token: V2 * S >= V * S2 for V = main + reserve and S the
\* supply before it, V2 and S2 after it.
C3_SplitKeepsBacking ==
    [][Took("CrankSplit") => PoolValue' * supply >= PoolValue * supply']_vars

\* C4: a Deposit that takes effect when S > 0 and V > 0 never lowers the
\* value backing each existing claim token: V2 * S >= V * S2.
C4_DepositKeepsBacking ==
    [][(Took("Deposit") /\ supply > 0 /\ PoolValue > 0)
         => PoolValue' * supply >= PoolValue * supply']_vars

\* C5: for each (withdrawer, nonce) pair at most one CrankSplit ever takes
\* effect, whatever happens in between.
C5_OneSplitPerPair ==
    [][Took("CrankSplit") => <<last'.who, last'.nonce>> \notin done]_vars

\* C6: Withdraw fails whenever the split position's address it is given is
\* not the one derived from the withdrawer and the nonce, and whatever leaves
\* a split position created for a withdrawer is paid to that withdrawer and
\* to nobody else.
C6_WithdrawOnlyToOwner ==
    /\ [](\A ix \in WithdrawInputs :
            ix.account_to_withdraw_from # SplitPda(ix.withdrawer[2], ix.nonce)
            => ~Withdraw_run(World, ix, epoch).ok)
    /\ [][\A u \in Users, n \in Nonces :
            accounts'[SplitPda(u, n)].lamports < accounts[SplitPda(u, n)].lamports
            => /\ accounts'[Wallet(u)].lamports
                  = accounts[Wallet(u)].lamports
                    + accounts[SplitPda(u, n)].lamports
                    - accounts'[SplitPda(u, n)].lamports
               /\ \A v \in Users \ {u} :
                    accounts'[Wallet(v)].lamports
                    <= accounts[Wallet(v)].lamports]_vars

\* A split position is open that its withdrawer can withdraw now, and the
\* same Withdraw signed by another user is rejected.
C6_StrangerRejected ==
    \E pair \in open, v \in Users :
       /\ v # pair[1]
       /\ Withdraw_run(World,
                       WithdrawIx(pair[1], pair[2], SplitPda(pair[1], pair[2])),
                       epoch).ok
       /\ ~Withdraw_run(World,
                        WithdrawIx(v, pair[2], SplitPda(pair[1], pair[2])),
                        epoch).ok

\* C7: a Withdraw for (withdrawer, nonce) succeeds only if a CrankSplit for
\* the pair took effect earlier and no Withdraw for it has taken effect since.
C7_WithdrawNeedsOpenSplit ==
    \A ix \in WithdrawInputs :
       Withdraw_run(World, ix, epoch).ok
       => <<ix.withdrawer[2], ix.nonce>> \in open

\* A Withdraw has just taken effect and the same Withdraw, sent again, fails.
C7_SecondWithdrawFails ==
    /\ last.op = "Withdraw"
    /\ <<last.who, last.nonce>> \in done \ open
    /\ ~Withdraw_run(World,
                     WithdrawIx(last.who, last.nonce,
                                SplitPda(last.who, last.nonce)), epoch).ok

\* C8: a Withdraw that takes effect pays the split position's whole value to
\* the withdrawer and leaves the position closed, holding nothing.
C8_WithdrawDrainsSplit ==
    [][Took("Withdraw") =>
         LET split == SplitPda(last'.who, last'.nonce)
         IN  /\ accounts[split].lamports > 0
             /\ accounts'[Wallet(last'.who)].lamports
                = accounts[Wallet(last'.who)].lamports + accounts[split].lamports
             /\ accounts'[split] = EmptyAccount
             /\ stake'[split] = ZeroStake]_vars

\* A Withdraw has just closed a split position that held a split of more
\* than the minimum.
C8_SplitDrained ==
    /\ last.op = "Withdraw"
    /\ accounts[SplitPda(last.who, last.nonce)].lamports = 0
    /\ accounts[Wallet(last.who)].lamports > InitialFunds(last.who)

\* C9: CrankInitializeReserve succeeds only when the reserve's discriminant
\* is 0 and CrankMergeReserve only when it is 2; a crank sent in any other
\* state fails, and a crank that fails takes no effect on main or reserve.
C9_CranksGated ==
    /\ [](\A ix \in CrankInitializeReserveInputs :
            CrankInitializeReserve_run(World, ix, epoch).ok
            => /\ HasDiscriminant(World, StakeReserve)
               /\ Discriminant(World, StakeReserve) = 0)
    /\ [](\A ix \in CrankMergeReserveInputs :
            CrankMergeReserve_run(World, ix, epoch).ok
            => /\ HasDiscriminant(World, StakeReserve)
               /\ Discriminant(World, StakeReserve) = 2)
    /\ [][/\ Took("CrankInitializeReserve")
             => Discriminant(World, StakeReserve) = 0
          /\ Took("CrankMergeReserve")
             => Discriminant(World, StakeReserve) = 2]_vars

\* CrankInitializeReserve has just staked the reserve: sent again it fails,
\* and CrankMergeReserve would now succeed.
C9_ReserveStaked ==
    /\ last.op = "CrankInitializeReserve"
    /\ Discriminant(World, StakeReserve) = 2
    /\ ~CrankInitializeReserve_run(World, CrankInitializeReserveIx, epoch).ok
    /\ CrankMergeReserve_run(World, CrankMergeReserveIx, epoch).ok

\* C10: the CrankInitializeReserve and CrankMergeReserve that take effect
\* strictly alternate, starting with CrankInitializeReserve.
C10_CranksAlternate ==
    /\ calls["CrankMergeReserve"] <= calls["CrankInitializeReserve"]
    /\ calls["CrankInitializeReserve"] <= calls["CrankMergeReserve"] + 1
    /\ last.op = "CrankInitializeReserve"
       => calls["CrankInitializeReserve"] = calls["CrankMergeReserve"] + 1
    /\ last.op = "CrankMergeReserve"
       => calls["CrankInitializeReserve"] = calls["CrankMergeReserve"]

\* One full cycle has run, and a further CrankMergeReserve fails.
C10_CycleDone ==
    /\ last.op = "CrankMergeReserve"
    /\ calls["CrankInitializeReserve"] = 1
    /\ calls["CrankMergeReserve"] = 1
    /\ ~CrankMergeReserve_run(World, CrankMergeReserveIx, epoch).ok

\* C11: the reserve cycle is repeatable: after a CrankMergeReserve that took
\* effect the reserve's discriminant reads 0 again, and once a later Deposit
\* has refilled the reserve a new CrankInitializeReserve succeeds.
C11_CycleRepeats ==
    /\ last.op = "CrankMergeReserve"
       => /\ HasDiscriminant(World, StakeReserve)
          /\ Discriminant(World, StakeReserve) = 0
    /\ (calls["CrankMergeReserve"] >= 1 /\ last.op = "Deposit")
       => CrankInitializeReserve_run(World, CrankInitializeReserveIx, epoch).ok

\* C12: a CrankMergeReserve that takes effect moves the whole balance of the
\* reserve into main: main grows by exactly what the reserve held, the
\* reserve is left with nothing, and main + reserve is unchanged.
C12_MergeMovesReserve ==
    [][Took("CrankMergeReserve") =>
         /\ accounts[StakeReserve].lamports > 0
         /\ accounts'[StakeMain].lamports
            = accounts[StakeMain].lamports + accounts[StakeReserve].lamports
         /\ accounts'[StakeReserve].lamports = 0
         /\ PoolValue' = PoolValue]_vars

\* A CrankMergeReserve has just emptied a reserve that held a deposit on top
\* of its initial funding.
C12_ReserveMerged ==
    /\ last.op = "CrankMergeReserve"
    /\ accounts[StakeReserve].lamports = 0
    /\ accounts[StakeMain].lamports
       > 2 * (minimum_balance(STAKE_ACCOUNT_SPACE) + LAMPORTS_PER_SOL)

\* C13: a Deposit handed a main stake account other than the one recorded in
\* the config is rejected, so it moves no value and mints no claim tokens.
C13_DepositChecksMain ==
    \A ix \in DepositInputs :
        ix.stake_account_main # config.stake_account_main
        => ~Deposit_run(World, ix).ok

\* C14: each of the six instructions is rejected, and so changes nothing,
\* when the config address it is handed is not the address derived from the
\* label "config".
C14_ConfigAddressChecked ==
    [](
      LET wrong(ix) == ix.config_pda # find_program_address("config", "-", 0)
      IN  /\ \A ix \in InitializeInputs :
                wrong(ix) => ~Initialize_run(World, ix, epoch).ok
          /\ \A ix \in CrankInitializeReserveInputs :
                wrong(ix) => ~CrankInitializeReserve_run(World, ix, epoch).ok
          /\ \A ix \in CrankMergeReserveInputs :
                wrong(ix) => ~CrankMergeReserve_run(World, ix, epoch).ok
          /\ \A ix \in DepositInputs :
                wrong(ix) => ~Deposit_run(World, ix).ok
          /\ \A ix \in CrankSplitInputs :
                wrong(ix) => ~CrankSplit_run(World, ix, epoch).ok
          /\ \A ix \in WithdrawInputs :
                wrong(ix) => ~Withdraw_run(World, ix, epoch).ok)

\* A state in which Deposit, CrankSplit and Withdraw would each succeed with
\* the pool's config address and are each rejected, for the config address,
\* with another account in its place.
C14_OnlyConfigWrong ==
    \E u \in Users, n \in Nonces :
        LET d == DepositIx(u, LAMPORTS_PER_SOL)
            s == CrankSplitIx(u, minimum_balance(STAKE_ACCOUNT_SPACE)
                                 + LAMPORTS_PER_SOL, 1 - n)
            x == WithdrawIx(u, n, SplitPda(u, n))
        IN  /\ Deposit_run(World, d).ok
            /\ Deposit_run(World, [d EXCEPT !.config_pda = Bogus]).err
               = "InvalidConfigPda"
            /\ CrankSplit_run(World, s, epoch).ok
            /\ CrankSplit_run(World, [s EXCEPT !.config_pda = Bogus], epoch).err
               = "InvalidConfigPda"
            /\ Withdraw_run(World, x, epoch).ok
            /\ Withdraw_run(World, [x EXCEPT !.config_pda = Bogus], epoch).err
               = "InvalidConfigPda"

\* C15: Deposit is rejected when the reserve, the mint or the depositor's
\* token account it is handed is not the configured reserve, the configured
\* mint, or the associated account of (depositor, token program, mint);
\* CrankSplit is rejected likewise for main, reserve, mint and the
\* withdrawer's token account. A rejected call changes nothing. The accounts
\* tried in a slot are the pool's stake accounts, every user's token account,
\* the pool's mint and a foreign account.
C15_PoolAccountsChecked ==
    [](LET stakes == {StakeMain, StakeReserve, Bogus}
           mints == {LstMint, Bogus}
           tokens == Atas \cup {Bogus}
           a == minimum_balance(STAKE_ACCOUNT_SPACE) + LAMPORTS_PER_SOL
       IN  \A u \in Users :
             LET d == DepositIx(u, LAMPORTS_PER_SOL)
                 s == CrankSplitIx(u, a, 0)
             IN  /\ \A k \in stakes \ {config.stake_account_reserve} :
                       /\ ~Deposit_run(World,
                             [d EXCEPT !.stake_account_reserve = k]).ok
                       /\ ~CrankSplit_run(World,
                             [s EXCEPT !.stake_account_reserve = k], epoch).ok
                 /\ \A k \in stakes \ {config.stake_account_main} :
                       ~CrankSplit_run(World,
                          [s EXCEPT !.stake_account_main = k], epoch).ok
                 /\ \A k \in mints \ {config.lst_mint} :
                       /\ ~Deposit_run(World, [d EXCEPT !.lst_mint = k]).ok
                       /\ ~CrankSplit_run(World, [s EXCEPT !.lst_mint = k],
                                          epoch).ok
                 /\ \A k \in tokens \ {AtaOf(Wallet(u), TOKEN_PROGRAM_ID, LstMint)} :
                       /\ ~Deposit_run(World, [d EXCEPT !.depositor_ata = k]).ok
                       /\ ~CrankSplit_run(World,
                             [s EXCEPT !.withdrawer_ata = k], epoch).ok)

\* A state in which u1's Deposit and CrankSplit would both succeed as they
\* are, and are rejected when they name u2's token account, or another
\* account as reserve, mint or main.
C15_OnlyOneAccountWrong ==
    LET d == DepositIx("u1", LAMPORTS_PER_SOL)
        s == CrankSplitIx("u1", minimum_balance(STAKE_ACCOUNT_SPACE)
                                + LAMPORTS_PER_SOL, 0)
        other == AtaOf(Wallet("u2"), TOKEN_PROGRAM_ID, LstMint)
    IN  /\ token[other] > 0
        /\ Deposit_run(World, d).ok
        /\ Deposit_run(World, [d EXCEPT !.depositor_ata = other]).err
           = "InvalidDepositorAta"
        /\ Deposit_run(World, [d EXCEPT !.stake_account_reserve = StakeMain]).err
           = "InvalidStakeAccountReserve"
        /\ Deposit_run(World, [d EXCEPT !.lst_mint = Bogus]).err
           = "InvalidLstMint"
        /\ CrankSplit_run(World, s, epoch).ok
        /\ CrankSplit_run(World, [s EXCEPT !.withdrawer_ata = other], epoch).err
           = "InvalidWithdrawerAta"
        /\ CrankSplit_run(World, [s EXCEPT !.stake_account_main = StakeReserve],
                          epoch).err = "InvalidStakeAccountMain"
        /\ CrankSplit_run(World, [s EXCEPT !.stake_account_reserve = Bogus],
                          epoch).err = "InvalidStakeAccountReserve"
        /\ CrankSplit_run(World, [s EXCEPT !.lst_mint = Bogus], epoch).err
           = "InvalidLstMint"

\* C16: CrankInitializeReserve is rejected when the reserve or the validator
\* it is handed is not the one in the config, and CrankMergeReserve when
\* the main or the reserve is not; so a crank that takes effect delegates
\* the pool's reserve to the configured validator, or merges the pool's
\* reserve into the pool's main, and touches no other stake account.
C16_CranksActOnPool ==
    /\ [](\A ix \in CrankInitializeReserveInputs :
            (\/ ix.stake_account_reserve # config.stake_account_reserve
             \/ ix.validator_vote_account # config.validator_vote_pubkey)
            => ~CrankInitializeReserve_run(World, ix, epoch).ok)
    /\ [](\A ix \in CrankMergeReserveInputs :
            (\/ ix.stake_account_main # config.stake_account_main
             \/ ix.stake_account_reserve # config.stake_account_reserve)
            => ~CrankMergeReserve_run(World, ix, epoch).ok)
    /\ [][/\ Took("CrankInitializeReserve")
             => /\ stake'[StakeReserve].state = 2
                /\ stake'[StakeReserve].voter = config.validator_vote_pubkey
                /\ \A a \in StakeAddrs \ {StakeReserve} : stake'[a] = stake[a]
          /\ Took("CrankMergeReserve")
             => /\ stake'[StakeReserve] = ZeroStake
                /\ accounts'[StakeMain].lamports > accounts[StakeMain].lamports
                /\ \A a \in StakeAddrs \ {StakeMain, StakeReserve} :
                      stake'[a] = stake[a] /\ accounts'[a] = accounts[a]]_vars

\* CrankInitializeReserve has delegated the reserve to the configured
\* validator, and CrankMergeReserve, which would now succeed on the pool's
\* accounts, is rejected with another account as main or as reserve.
C16_OnlyPoolMerges ==
    /\ calls["CrankInitializeReserve"] = 1
    /\ stake[StakeReserve].voter = config.validator_vote_pubkey
    /\ stake[StakeReserve].voter = Validator
    /\ CrankMergeReserve_run(World, CrankMergeReserveIx, epoch).ok
    /\ CrankMergeReserve_run(World,
          [CrankMergeReserveIx EXCEPT !.stake_account_main = Bogus],
          epoch).err = "InvalidStakeAccountMain"
    /\ CrankMergeReserve_run(World,
          [CrankMergeReserveIx EXCEPT !.stake_account_reserve = StakeMain],
          epoch).err = "InvalidStakeAccountReserve"

\* C17: the first Deposit after Initialize, with nothing in between, is the
\* 1:1 case: the depositor receives exactly as many claim tokens as the
\* amount deposited.
C17_FirstDepositOneToOne ==
    [][(Took("Deposit") /\ last.op = "Initialize") =>
         /\ token'[TokenAccountOf(last'.who)]
            = token[TokenAccountOf(last'.who)] + last'.amount
         /\ supply' = supply + last'.amount]_vars

\* C18: a Deposit of less than one SOL is rejected, by the amount check with
\* the error DepositBelowMinimum whenever its accounts pass their checks, and
\* so changes nothing; an amount of exactly one SOL passes the amount check.
C18_DepositMinimum ==
    [](
      \A ix \in DepositInputs :
          LET r == Deposit_run(World, ix)
          IN  /\ ix.amount < LAMPORTS_PER_SOL
                 => /\ ~r.ok
                    /\ DepositAccounts_try_from(World, ix) = ""
                       => r.err = "DepositBelowMinimum"
              /\ ix.amount = LAMPORTS_PER_SOL
                 => /\ DepositData_try_from(ix.amount) = ""
                    /\ r.err # "DepositBelowMinimum")

\* A state in which a Deposit of exactly one SOL would succeed and the same
\* Deposit of one lamport less is rejected for its amount.
C18_OneLamportShort ==
    \E u \in Users :
        /\ config.lst_mint = LstMint
        /\ Deposit_run(World, DepositIx(u, LAMPORTS_PER_SOL)).ok
        /\ Deposit_run(World, DepositIx(u, LAMPORTS_PER_SOL - 1)).err
           = "DepositBelowMinimum"

\* C19: a CrankSplit of less than the rent-exempt minimum of a 200-byte
\* stake record plus one SOL is rejected, by the amount check with the error
\* SplitBelowMinimum whenever its accounts pass their checks, and so changes
\* nothing; a request of exactly that minimum passes the amount check. The
\* requests tried are the well-formed one, the unsigned one, and those with
\* a foreign account in one slot.
C19_SplitMinimum ==
    [](LET minimum_lamports == minimum_balance(STAKE_ACCOUNT_SPACE)
                               + LAMPORTS_PER_SOL
       IN  \A u \in Users, a \in SplitAmounts :
             LET h == CrankSplitIx(u, a, 0)
             IN  \A ix \in {h} \cup Unsigned(h, {"withdrawer_signer"})
                        \cup Substituted(h, {"config_pda", "stake_account_main",
                                             "withdrawer_ata", "token_program"},
                                         {Bogus}) :
                   LET r == CrankSplit_run(World, ix, epoch)
                   IN  /\ a < minimum_lamports
                          => /\ ~r.ok
                             /\ CrankSplitAccounts_try_from(World, ix) = ""
                                => r.err = "SplitBelowMinimum"
                       /\ a = minimum_lamports
                          => /\ CrankSplitInstructionData_try_from(a) = ""
                             /\ r.err # "SplitBelowMinimum")

\* A state in which a CrankSplit of exactly the minimum would succeed and the
\* same request of one lamport less is rejected for its amount.
C19_OneLamportShort ==
    \E u \in Users, n \in Nonces :
        LET minimum_lamports == minimum_balance(STAKE_ACCOUNT_SPACE)
                                + LAMPORTS_PER_SOL
        IN  /\ CrankSplit_run(World, CrankSplitIx(u, minimum_lamports, n),
                              epoch).ok
            /\ CrankSplit_run(World, CrankSplitIx(u, minimum_lamports - 1, n),
                              epoch).err = "SplitBelowMinimum"

\* C20: when the withdrawer holds fewer claim tokens than the burn computed
\* for the request, CrankSplit fails; when the balance is all that stands in
\* the way the error is InsufficientLstBalance. The failed call takes no
\* effect: no split position exists for its (withdrawer, nonce), and the
\* same request succeeds as soon as the balance covers the burn.
C20_SplitNeedsBalance ==
    [](
      \A u \in Users, a \in SplitAmounts, n \in Nonces :
          LET ix == CrankSplitIx(u, a, n)
              burn == lst_to_burn(a, supply,
                                  PoolValue + minimum_balance(STAKE_ACCOUNT_SPACE)
                                  + LAMPORTS_PER_SOL)
              r == CrankSplit_run(World, ix, epoch)
              funded == CrankSplit_run([World EXCEPT !.tok[ix.withdrawer_ata] = burn],
                                       ix, epoch)
          IN  /\ token[ix.withdrawer_ata] < burn => ~r.ok
              /\ (token[ix.withdrawer_ata] < burn /\ funded.ok)
                 => r.err = "InsufficientLstBalance"
              /\ r.err = "InsufficientLstBalance"
                 => /\ token[ix.withdrawer_ata] < burn
                    /\ accounts[SplitPda(u, n)] = EmptyAccount
                    /\ <<u, n>> \notin open
                    /\ funded.ok)

\* u2 holds no claim tokens while the pool is set up: its CrankSplit fails
\* for the balance alone, and u1's identical request would succeed.
C20_BalanceTooSmall ==
    LET a == minimum_balance(STAKE_ACCOUNT_SPACE) + LAMPORTS_PER_SOL
    IN  /\ token[TokenAccountOf("u2")] = 0
        /\ lst_to_burn(a, supply, PoolValue + a) > 0
        /\ CrankSplit_run(World, CrankSplitIx("u2", a, 0), epoch).err
           = "InsufficientLstBalance"
        /\ CrankSplit_run(World, CrankSplitIx("u1", a, 0), epoch).ok

\* C21: a CrankSplit that asks for more lamports than the main stake account
\* holds fails, and so leaves main, the split address, the supply and the
\* withdrawer's balance as they were; the balance of main is never negative.
C21_SplitWithinMain ==
    [](/\ accounts[StakeMain].lamports >= 0
       /\ \A u \in Users, a \in SplitAmounts, n \in Nonces :
             a > accounts[StakeMain].lamports
             => ~CrankSplit_run(World, CrankSplitIx(u, a, n), epoch).ok)

\* Main holds exactly the minimum split: a request of one lamport more is
\* refused by the stake program, the request for all of it would succeed.
C21_OneLamportTooMuch ==
    LET a == minimum_balance(STAKE_ACCOUNT_SPACE) + LAMPORTS_PER_SOL
    IN  /\ accounts[StakeMain].lamports = a
        /\ CrankSplit_run(World, CrankSplitIx("u1", a + 1, 0), epoch).err
           = "InsufficientFunds"
        /\ CrankSplit_run(World, CrankSplitIx("u1", a, 0), epoch).ok

\* C22: once Initialize has taken effect, the five fields of the config
\* record keep their values in every later state and the account that holds
\* the record is never changed or destroyed.
C22_ConfigImmutable ==
    [][calls["Initialize"] >= 1
       => /\ config' = config
          /\ accounts'[ConfigPda] = accounts[ConfigPda]
          /\ accounts[ConfigPda].space = ConfigLEN]_vars

\* Every kind of instruction has taken effect after Initialize, and the
\* record still names the initializer, the mint, main, reserve and validator.
C22_ConfigStillThere ==
    /\ calls["Initialize"] = 1
    /\ calls["Deposit"] >= 1
    /\ calls["CrankInitializeReserve"] >= 1
    /\ calls["CrankSplit"] >= 1
    /\ calls["Withdraw"] >= 1
    /\ config = [admin |-> Wallet("u1"), lst_mint |-> LstMint,
                 stake_account_main |-> StakeMain,
                 stake_account_reserve |-> StakeReserve,
                 validator_vote_pubkey |-> Validator]

\* C23: Initialize succeeds only while the config, main and reserve
\* addresses are all still empty; so at most one Initialize takes effect in
\* a run, and every Initialize sent after it fails and changes nothing.
C23_InitializeOnce ==
    /\ [](\A ix \in InitializeInputs :
            Initialize_run(World, ix, epoch).ok
            => /\ accounts[ix.config_pda] = EmptyAccount
               /\ accounts[ix.stake_account_main] = EmptyAccount
               /\ accounts[ix.stake_account_reserve] = EmptyAccount)
    /\ [](calls["Initialize"] <= 1)
    /\ [](calls["Initialize"] >= 1
          => \A ix \in InitializeInputs : ~Initialize_run(World, ix, epoch).ok)
    /\ [][Took("Initialize") => calls["Initialize"] = 0]_vars

\* The pool is set up and its reserve has been merged away, so the reserve
\* address is empty again: Initialize is refused all the same.
C23_SecondInitializeRefused ==
    /\ calls["Initialize"] = 1
    /\ calls["CrankMergeReserve"] = 1
    /\ accounts[StakeReserve] = EmptyAccount
    /\ \A u \in Users :
          Initialize_run(World, InitializeIx(u), epoch).err = "InvalidOwner"

\* C24: after an Initialize that succeeds the config record holds the
\* initializer as admin, the supplied mint, the derived main and reserve
\* addresses and the supplied validator; main exists and is delegated
\* (discriminant 2); the reserve exists and is uninitialized (discriminant
\* 0); and exactly the bootstrap amount of claim tokens has been minted to
\* the initializer's token account.
C24_InitializeEffect ==
    /\ [](\A u \in Users, v \in {Validator, OtherValidator} :
            LET ix == [InitializeIx(u) EXCEPT !.validator_vote_account = v]
                r == Initialize_run(World, ix, epoch)
                w == Settle(r.w)
            IN  r.ok =>
                /\ w.cfg = [admin |-> ix.initializer, lst_mint |-> ix.lst_mint,
                            stake_account_main |-> StakeMain,
                            stake_account_reserve |-> StakeReserve,
                            validator_vote_pubkey |-> v]
                /\ HasDiscriminant(w, StakeMain)
                /\ Discriminant(w, StakeMain) = 2
                /\ w.stk[StakeMain].voter = v
                /\ HasDiscriminant(w, StakeReserve)
                /\ Discriminant(w, StakeReserve) = 0
                /\ w.sup = supply + BootstrapMint
                /\ w.tok[ix.initializer_ata]
                   = token[ix.initializer_ata] + BootstrapMint)
    /\ [][Took("Initialize") =>
            /\ config' = [admin |-> Wallet(last'.who), lst_mint |-> LstMint,
                          stake_account_main |-> StakeMain,
                          stake_account_reserve |-> StakeReserve,
                          validator_vote_pubkey |-> Validator]
            /\ accounts'[ConfigPda].space = ConfigLEN
            /\ accounts'[StakeMain].space = STAKE_ACCOUNT_SPACE
            /\ stake'[StakeMain].state = 2
            /\ accounts'[StakeReserve].space = STAKE_ACCOUNT_SPACE
            /\ stake'[StakeReserve].state = 0
            /\ supply' = supply + BootstrapMint
            /\ token'[TokenAccountOf(last'.who)]
               = token[TokenAccountOf(last'.who)] + BootstrapMint
            /\ \A a \in Atas \ {TokenAccountOf(last'.who)} :
                  token'[a] = token[a]]_vars

\* Initialize has just taken effect for u1: main is delegated, the reserve is
\* funded and uninitialized, and u1 holds the bootstrap amount.
C24_PoolSetUp ==
    /\ last.op = "Initialize"
    /\ config.admin = Wallet("u1")
    /\ stake[StakeMain].state = 2
    /\ accounts[StakeReserve].lamports
       = minimum_balance(STAKE_ACCOUNT_SPACE) + LAMPORTS_PER_SOL
    /\ supply = BootstrapMint
    /\ token[TokenAccountOf("u1")] = BootstrapMint

\* C25: Initialize accepts a mint that does not exist yet: a call that would
\* succeed with the mint already created also succeeds while the mint
\* address is still empty, and leaves the mint created.
C25_FreshMintAccepted ==
    \A u \in Users :
        LET ix == InitializeIx(u)
            created == [World EXCEPT
                          !.acc[LstMint] = [lamports |-> minimum_balance(MintLEN),
                                            owner |-> "token",
                                            space |-> MintLEN]]
            r == Initialize_run(World, ix, epoch)
        IN  (accounts[LstMint] = EmptyAccount
             /\ Initialize_run(created, ix, epoch).ok)
            => (r.ok /\ IsMint(r.w, LstMint))

\* C26: Initialize fails unless the initializer and the mint have both
\* signed, Deposit unless the depositor has, CrankSplit and Withdraw unless
\* the withdrawer has; a failed call changes nothing, so a step that lowers
\* the lamports of a user's wallet or that user's claim tokens is a step of
\* an instruction that user signed.
C26_SignersRequired ==
    /\ [](\A u \in Users :
            /\ \A ix \in Unsigned(InitializeIx(u),
                                  {"initializer_signer", "lst_mint_signer"}) :
                  ~Initialize_run(World, ix, epoch).ok
            /\ \A ix \in Unsigned(DepositIx(u, LAMPORTS_PER_SOL),
                                  {"depositor_signer"}) :
                  ~Deposit_run(World, ix).ok
            /\ \A n \in Nonces :
                  /\ \A ix \in Unsigned(CrankSplitIx(u,
                                           minimum_balance(STAKE_ACCOUNT_SPACE)
                                           + LAMPORTS_PER_SOL, n),
                                        {"withdrawer_signer"}) :
                        ~CrankSplit_run(World, ix, epoch).ok
                  /\ \A ix \in Unsigned(WithdrawIx(u, n, SplitPda(u, n)),
                                        {"withdrawer_signer"}) :
                        ~Withdraw_run(World, ix, epoch).ok)
    /\ [][\A u \in Users :
            (\/ accounts'[Wallet(u)].lamports < accounts[Wallet(u)].lamports
             \/ token'[TokenAccountOf(u)] < token[TokenAccountOf(u)])
            => /\ last'.who = u
               /\ \/ Took("Initialize") \/ Took("Deposit") \/ Took("CrankSplit")]_vars

\* A state in which u1's Deposit, CrankSplit and Withdraw would each succeed
\* signed and are each refused, for the missing signature, unsigned.
C26_UnsignedRefused ==
    \E n \in Nonces :
        LET d == DepositIx("u1", LAMPORTS_PER_SOL)
            s == CrankSplitIx("u1", minimum_balance(STAKE_ACCOUNT_SPACE)
                                    + LAMPORTS_PER_SOL, 1 - n)
            x == WithdrawIx("u1", n, SplitPda("u1", n))
        IN  /\ Deposit_run(World, d).ok
            /\ Deposit_run(World, [d EXCEPT !.depositor_signer = FALSE]).err
               = "NotSigner"
            /\ CrankSplit_run(World, s, epoch).ok
            /\ CrankSplit_run(World, [s EXCEPT !.withdrawer_signer = FALSE],
                              epoch).err = "NotSigner"
            /\ Withdraw_run(World, x, epoch).ok
            /\ Withdraw_run(World, [x EXCEPT !.withdrawer_signer = FALSE],
                            epoch).err = "NotSigner"

\* C27: the cranks are permissionless. Neither call has a signer among its
\* accounts, so whether CrankInitializeReserve or CrankMergeReserve succeeds,
\* and the pool state it produces, is the same whatever the users' wallets
\* and token accounts hold, the admin's included; and a crank that takes
\* effect takes nothing from any wallet or token account.
C27_CranksPermissionless ==
    /\ [](\A u \in Users :
            LET other == [World EXCEPT !.acc[Wallet(u)] = EmptyAccount,
                                       !.tok[TokenAccountOf(u)] = 0]
                pool(w) == <<w.cfg, w.stk[StakeMain], w.stk[StakeReserve],
                             w.acc[StakeMain], w.acc[StakeReserve]>>
                same(r1, r2) == /\ r1.ok = r2.ok
                                /\ r1.err = r2.err
                                /\ r1.ok => pool(r1.w) = pool(r2.w)
            IN  /\ same(CrankInitializeReserve_run(World,
                           CrankInitializeReserveIx, epoch),
                        CrankInitializeReserve_run(other,
                           CrankInitializeReserveIx, epoch))
                /\ same(CrankMergeReserve_run(World, CrankMergeReserveIx, epoch),
                        CrankMergeReserve_run(other, CrankMergeReserveIx,
                                              epoch)))
    /\ [][(Took("CrankInitializeReserve") \/ Took("CrankMergeReserve"))
          => /\ \A u \in Users : accounts'[Wallet(u)] = accounts[Wallet(u)]
             /\ token' = token
             /\ supply' = supply]_vars

\* Both cranks have taken effect although nobody but the initializer has
\* ever signed anything: there has been no Deposit and no CrankSplit, and
\* u2's wallet is untouched.
C27_CrankedByNobody ==
    /\ calls["CrankInitializeReserve"] = 1
    /\ calls["CrankMergeReserve"] = 1
    /\ calls["Deposit"] = 0
    /\ calls["CrankSplit"] = 0
    /\ config.admin = Wallet("u1")
    /\ accounts[Wallet("u2")].lamports = InitialFunds("u2")

\* C28: within every instruction the checks that can reject the call come
\* before its first mutating step: a call that one of the program's own
\* checks rejects has, up to that check, changed nothing.
C28_ChecksBeforeEffects ==
    LET clean(r) == (~r.ok /\ r.err \in PinocchioError) => r.w = World
    IN  /\ \A ix \in InitializeInputs : clean(Initialize_run(World, ix, epoch))
        /\ \A ix \in CrankInitializeReserveInputs :
              clean(CrankInitializeReserve_run(World, ix, epoch))
        /\ \A ix \in CrankMergeReserveInputs :
              clean(CrankMergeReserve_run(World, ix, epoch))
        /\ \A ix \in DepositInputs : clean(Deposit_run(World, ix))
        /\ \A ix \in CrankSplitInputs : clean(CrankSplit_run(World, ix, epoch))
        /\ \A ix \in WithdrawInputs : clean(Withdraw_run(World, ix, epoch))

C30_ExitsIndependent ==
    /\ [](\A u, v \in Users : \A n, m \in Nonces :
            <<u, n>> # <<v, m>> =>
            LET p  == SplitPda(u, n)
                q  == SplitPda(v, m)
                wp == Withdraw_run(World, WithdrawIx(u, n, p), epoch)
                wq == Withdraw_run(World, WithdrawIx(v, m, q), epoch)
                gone == [World EXCEPT !.acc[q] = EmptyAccount,
                                      !.stk[q] = ZeroStake]
                alone == Withdraw_run(gone, WithdrawIx(u, n, p), epoch)
            IN  /\ p # q
                /\ alone.ok = wp.ok
                /\ (wp.ok /\ wq.ok) =>
                     LET mid  == Settle(wq.w)
                         then == Withdraw_run(mid, WithdrawIx(u, n, p), epoch)
                     IN  /\ then.ok
                         /\ then.w.acc[Wallet(u)].lamports
                              = mid.acc[Wallet(u)].lamports
                                + accounts[p].lamports
                         /\ Settle(then.w).acc[p] = EmptyAccount)
    /\ [][(Took("CrankSplit") \/ Took("Withdraw")) =>
            \A a \in SplitAddrs \ {SplitPda(last'.who, last'.nonce)} :
               accounts'[a] = accounts[a] /\ stake'[a] = stake[a]]_vars

\* Both users hold a split position under the same nonce, made by two
\* CrankSplits, and each of the two positions can be withdrawn now.
C30_TwoExitsOpen ==
    /\ {<<"u1", 0>>, <<"u2", 0>>} \subseteq open
    /\ accounts[SplitPda("u1", 0)].lamports > 0
    /\ accounts[SplitPda("u2", 0)].lamports > 0
    /\ Withdraw_run(World, WithdrawIx("u1", 0, SplitPda("u1", 0)), epoch).ok
    /\ Withdraw_run(World, WithdrawIx("u2", 0, SplitPda("u2", 0)), epoch).ok


\* C31: a CrankSplit for requested amount r that takes effect lowers main's
\* value by exactly r and leaves the new split position holding r, or r plus
\* the rent-exempt minimum of its record, so that Withdraw pays out what the
\* withdrawer asked to exit with.
C31_SplitHoldsRequest ==
    [][Took("CrankSplit") =>
         LET r == last'.amount
             p == SplitPda(last'.who, last'.nonce)
         IN  /\ accounts[StakeMain].lamports - accounts'[StakeMain].lamports = r
             /\ accounts'[p].lamports >= r
             /\ accounts'[p].lamports
                  <= r + minimum_balance(STAKE_ACCOUNT_SPACE)]_vars


\* C32: Deposit never mints a wrapped or truncated amount. For a well-formed
\* Deposit of amount a into a pool with supply S and value V = main + reserve:
\* when V does not fit in a u64, or S and V are nonzero and floor(a * S / V)
\* does not fit in a u64, the call fails with an arithmetic overflow; and a
\* call that succeeds mints exactly floor(a * S / V) (a itself when S or V is
\* zero).
C32_DepositMintsExactQuotient ==
    \A u \in Users : \A a \in DepositAmounts :
       LET r == Deposit_run(World, DepositIx(u, a))
           S == supply
           V == accounts[StakeMain].lamports + accounts[StakeReserve].lamports
           q == IF S = 0 \/ V = 0 THEN a ELSE (a * S) \div V
       IN  /\ (V > U64_MAX \/ q > U64_MAX) =>
                ~r.ok /\ r.err \in {"ArithmeticOverflow", "Overflow"}
                /\ r.w.sup = supply
           /\ r.ok => r.w.sup - supply = q


\* C33: Withdraw on a split position that is still cooling down fails and
\* changes nothing, neither the position's value nor the withdrawer's
\* balance; Withdraw on a position whose cooldown has finished succeeds and
\* pays its whole balance; and the only thing that decides between the two is
\* the staking system's view of the position at the current epoch: every
\* open position is withdrawable one epoch later, with nothing else changed.
C33_WithdrawWaitsForCooldown ==
    [](\A pair \in open :
         LET u  == pair[1]
             n  == pair[2]
             p  == SplitPda(u, n)
             ix == WithdrawIx(u, n, p)
             r  == Withdraw_run(World, ix, epoch)
             paid(x) == x.w.acc[Wallet(u)].lamports
                          = accounts[Wallet(u)].lamports + accounts[p].lamports
         IN  /\ stake[p].state = 2 /\ stake[p].deact # NoEpoch
             /\ ~Inactive(stake[p], epoch) => ~r.ok /\ r.w = World
             /\ Inactive(stake[p], epoch) =>
                  r.ok /\ paid(r) /\ r.w.acc[p].lamports = 0
             /\ LET later == Withdraw_run(World, ix, epoch + 1)
                IN  later.ok /\ paid(later))

\* A position split off the fully active main is cooling down: Withdraw is
\* refused now and would succeed in the next epoch.
C33_StillCooling ==
    \E pair \in open :
       LET p  == SplitPda(pair[1], pair[2])
           ix == WithdrawIx(pair[1], pair[2], p)
       IN  /\ last.op = "CrankSplit"
           /\ ~Inactive(stake[p], epoch)
           /\ Withdraw_run(World, ix, epoch).err = "InsufficientFunds"
           /\ Withdraw_run(World, ix, epoch + 1).ok


\* C34: instruction decoding. Empty instruction data and every selector
\* other than 0..5 are rejected as invalid instruction data; with well-formed
\* accounts, a Deposit payload that is not 8 bytes, a CrankSplit payload that
\* is not 16 and a Withdraw payload that is not 8 are rejected the same way;
\* a rejected call has changed nothing. Selector 0 is Initialize, 1
\* CrankInitializeReserve, 2 CrankMergeReserve (whatever the payload), 3
\* Deposit of the amount encoded, 4 CrankSplit of the amount and nonce
\* encoded, 5 Withdraw of the nonce encoded; and whatever takes effect is the
\* effect of one of these.
C34_DecodingChecked ==
    /\ [](\A d \in WireData :
            LET sel == IF d = <<>> THEN 255 ELSE Head(d)
                len == IF d = <<>> THEN 0 ELSE Len(d) - 1
                wanted == IF sel \in {3, 5} THEN 8
                          ELSE IF sel = 4 THEN 16 ELSE len
            IN  (sel \notin 0 .. 5 \/ len # wanted) =>
                \A accts \in WireAccounts(sel) :
                   LET r == process_instruction(World, accts, d, epoch)
                   IN  ~r.ok /\ r.err = "InvalidInstructionData" /\ r.w = World)
    /\ [](\A p \in WirePayloads :
            /\ \A u \in Users :
                  process_instruction(World, InitializeIx(u), <<0>> \o p, epoch)
                    = Initialize_run(World, InitializeIx(u), epoch)
            /\ process_instruction(World, CrankInitializeReserveIx,
                                   <<1>> \o p, epoch)
                 = CrankInitializeReserve_run(World, CrankInitializeReserveIx,
                                              epoch)
            /\ process_instruction(World, CrankMergeReserveIx, <<2>> \o p, epoch)
                 = CrankMergeReserve_run(World, CrankMergeReserveIx, epoch))
    /\ [](\A u \in Users : \A n \in Nonces :
            /\ \A a \in DepositAmounts :
                  process_instruction(World, DepositIx(u, 0),
                                      <<3>> \o to_le_bytes(a), epoch)
                    = Deposit_run(World, DepositIx(u, a))
            /\ \A a \in SplitAmounts : \A m \in Nonces :
                  process_instruction(World, CrankSplitIx(u, 0, n),
                                      <<4>> \o to_le_bytes(a) \o to_le_bytes(m),
                                      epoch)
                    = CrankSplit_run(World,
                                     [CrankSplitIx(u, a, n) EXCEPT !.nonce = m],
                                     epoch)
            /\ \A m \in Nonces :
                  process_instruction(World, WithdrawIx(u, n, SplitPda(u, n)),
                                      <<5>> \o to_le_bytes(m), epoch)
                    = Withdraw_run(World, WithdrawIx(u, m, SplitPda(u, n)),
                                   epoch))
    /\ [][/\ Took("Initialize") => config = ZeroConfig /\ config' # ZeroConfig
          /\ Took("CrankInitializeReserve") =>
               stake[StakeReserve].state = 0 /\ stake'[StakeReserve].state = 2
          /\ Took("CrankMergeReserve") =>
               stake[StakeReserve].state = 2 /\ stake'[StakeReserve].state = 0
          /\ Took("Deposit") =>
               /\ last'.amount \in WireNumbers
               /\ accounts'[StakeReserve].lamports
                    = accounts[StakeReserve].lamports + last'.amount
          /\ Took("CrankSplit") =>
               /\ last'.amount \in WireNumbers /\ last'.nonce \in Nonces
               /\ accounts[SplitPda(last'.who, last'.nonce)] = EmptyAccount
               /\ accounts'[SplitPda(last'.who, last'.nonce)].lamports
                    > last'.amount
          /\ Took("Withdraw") =>
               /\ last'.nonce \in Nonces
               /\ accounts[SplitPda(last'.who, last'.nonce)].lamports > 0
               /\ accounts'[SplitPda(last'.who, last'.nonce)] = EmptyAccount
          /\ (\A op \in Instructions : ~Took(op)) =>
               UNCHANGED <<accounts, stake, config, supply, token>>]_vars

\* A Deposit sent as bytes has taken effect; now a Deposit whose payload is
\* one byte short or one byte long is rejected as invalid instruction data
\* and the same Deposit with its eight bytes is accepted.
C34_OneByteOff ==
    LET p == to_le_bytes(LAMPORTS_PER_SOL)
        send(d) == process_instruction(World, DepositIx("u2", 0), d, epoch)
    IN  /\ last.op = "Deposit"
        /\ send(<<3>> \o SubSeq(p, 1, 7)).err = "InvalidInstructionData"
        /\ send(<<3>> \o p \o <<0>>).err = "InvalidInstructionData"
        /\ send(<<3>> \o p).ok


\* C35: once Initialize has succeeded the main stake position stays
\* delegated: in every state its record exists with a balance, its lifecycle
\* discriminant is 2 and it has not been deactivated.
C35_MainStaysDelegated ==
    calls["Initialize"] >= 1 =>
       /\ accounts[StakeMain].lamports > 0
       /\ accounts[StakeMain].owner = "stake"
       /\ stake[StakeMain].state = 2
       /\ stake[StakeMain].deact = NoEpoch


\* C36: a Deposit of amount a that takes effect lowers the depositor's
\* wallet by exactly a and raises the reserve's balance by exactly a; main,
\* every split position, every stake record (the reserve's lifecycle state
\* included) and the Configuration Record are as before. A well-formed
\* Deposit of at least the minimum that the depositor can pay is accepted
\* whenever the pool is initialized, whatever state the reserve is in.
C36_DepositFrame ==
    /\ [][Took("Deposit") =>
            LET u == last'.who
                a == last'.amount
            IN  /\ accounts'[Wallet(u)].lamports = accounts[Wallet(u)].lamports - a
                /\ accounts'[StakeReserve].lamports
                     = accounts[StakeReserve].lamports + a
                /\ accounts'[StakeMain] = accounts[StakeMain]
                /\ \A p \in SplitAddrs : accounts'[p] = accounts[p]
                /\ stake' = stake
                /\ config' = config
                /\ accounts'[ConfigPda] = accounts[ConfigPda]]_vars
    /\ [](\A u \in Users : \A a \in DepositAmounts :
            (/\ calls["Initialize"] >= 1
             /\ a >= LAMPORTS_PER_SOL
             /\ accounts[Wallet(u)].lamports >= a)
            => Deposit_run(World, DepositIx(u, a)).ok)

\* The last step is a Deposit made after the reserve had been merged into
\* main and was gone: the reserve address is a plain account holding just
\* that deposit. An earlier Deposit went into the reserve before the merge.
C36_DepositedInEveryReserveState ==
    /\ last.op = "Deposit"
    /\ calls["Deposit"] >= 2
    /\ calls["CrankMergeReserve"] = 1
    /\ stake[StakeReserve].state = 0
    /\ accounts[StakeReserve].owner = "system"
    /\ accounts[StakeReserve].lamports = last.amount


\* C37: every split position terminates. A position is deactivated from the
\* moment it exists: every open position's record is a stake that has been
\* deactivated in the epoch it was split off. And when the cooldown completes
\* and the withdrawers keep sending Withdraw, every position is eventually
\* withdrawn and its account closed: once the pool is no longer used, there
\* comes a point from which no position is open and no split account exists.
C37_SplitsTerminate ==
    /\ [](\A pair \in open :
            LET p == SplitPda(pair[1], pair[2])
            IN  /\ accounts[p].lamports > 0
                /\ stake[p].state = 2
                /\ stake[p].deact # NoEpoch
                /\ stake[p].deact <= epoch)
    /\ [][Took("CrankSplit") =>
            stake'[SplitPda(last'.who, last'.nonce)].deact = epoch]_vars
    /\ <>[](open = {} /\ \A p \in SplitAddrs : accounts[p] = EmptyAccount)

\* A position that was split off while main was fully active has cooled
\* down, been withdrawn and closed.
C37_ClosedAfterwards ==
    /\ epoch >= 2
    /\ last.op = "Withdraw"
    /\ calls["CrankSplit"] > calls["Withdraw"] - 1
    /\ <<last.who, last.nonce>> \in done \ open
    /\ accounts[SplitPda(last.who, last.nonce)] = EmptyAccount


\* The base-currency value held by a set of accounts.
RECURSIVE ValueHeld(_, _)
ValueHeld(acc, holders) ==
    IF holders = {} THEN 0
    ELSE LET a == CHOOSE x \in holders : TRUE
         IN  acc[a].lamports + ValueHeld(acc, holders \ {a})
\* Whoever holds value the pool deals with: the users, the config record,
\* main, the reserve and the split positions.
Holders == Wallets \cup {ConfigPda} \cup StakeAddrs

C39_SupplyIsSumOfBalances ==
    /\ [](/\ supply = token[TokenAccountOf("u1")] + token[TokenAccountOf("u2")]
          /\ \A a \in Atas : token[a] >= 0)
    /\ [][LET only(a, d) == /\ supply' = supply + d
                            /\ token' = [token EXCEPT ![a] = @ + d]
          IN  (supply' # supply \/ token' # token) =>
              \/ Took("Initialize")
                 /\ only(TokenAccountOf(last'.who), BootstrapMint)
              \/ Took("Deposit")
                 /\ supply' > supply
                 /\ only(TokenAccountOf(last'.who), supply' - supply)
              \/ Took("CrankSplit")
                 /\ supply' < supply
                 /\ only(TokenAccountOf(last'.who), supply' - supply)]_vars
    /\ [][(\/ Took("CrankInitializeReserve")
           \/ Took("CrankMergeReserve")
           \/ Took("Withdraw"))
            => supply' = supply /\ token' = token]_vars

\* Both users hold claim tokens after an Initialize, a Deposit and a
\* CrankSplit, and the last step, a Withdraw, left supply and balances alone.
C39_TokensAfterEveryKindOfStep ==
    /\ last.op = "Withdraw"
    /\ calls["Deposit"] >= 1
    /\ token[TokenAccountOf("u1")] > 0
    /\ token[TokenAccountOf("u2")] > 0
    /\ supply = token[TokenAccountOf("u1")] + token[TokenAccountOf("u2")]
    /\ supply # BootstrapMint


\* C40: in every state after Initialize the reserve is a stake record whose
\* lifecycle discriminant reads 0 or 2, never the initialized-but-not-delegated
\* value 1; the discriminant changes only in a CrankInitializeReserve step,
\* from 0 to 2, and in a CrankMergeReserve step, from 2 to 0, after which the
\* reserve is a record reading 0 again.
C40_ReserveAtZeroOrTwo ==
    /\ [](calls["Initialize"] >= 1 =>
            /\ IsStakeRecord(World, StakeReserve)
            /\ HasDiscriminant(World, StakeReserve)
            /\ Discriminant(World, StakeReserve) \in {0, 2})
    /\ [][stake'[StakeReserve].state # stake[StakeReserve].state =>
            \/ /\ Took("CrankInitializeReserve")
               /\ stake[StakeReserve].state = 0 /\ stake'[StakeReserve].state = 2
            \/ /\ Took("CrankMergeReserve")
               /\ stake[StakeReserve].state = 2 /\ stake'[StakeReserve].state = 0]_vars

====
